---- MODULE Spec2Model ----
(***************************************************************************)
(* A model of the pydidas workflow execution engine: the serial App        *)
(* life cycle (BaseApp.run with the CompositeCreatorApp gate), the file    *)
(* wait of live processing, the result aggregator (WorkflowResults), the   *)
(* plugin chain of the WorkflowTree and the worker pool driven by the run  *)
(* frames.                                                                 *)
(***************************************************************************)
EXTENDS Integers, Sequences, FiniteSets, TLC

\* ------------------------------------------------------------------ bounds
\* Largest number of files of a file list.
MaxFiles == 2
\* Largest number of images per file.
MaxImagesPerFile == 2
\* The elapsed time of a file wait saturates here (ticks of 10 ms).
MaxElapsed == 40
\* Size of a complete file; a file being written has a smaller size.
MaxFileSize == 2
\* Largest number of frames whose read raises.
MaxBad == 1
\* Largest number of node objects created for a WorkflowTree.
MaxNodes == 3
\* Largest number of executions of the plugin chain.
MaxRuns == 1
\* the number of execute_single_plugin calls
MaxSingleCalls == 1
\* Largest scalar passed to the plugin chain.
MaxArg == 5
\* Largest number of points of a scan dimension.
MaxPoints == 2
\* Largest number of store_results calls a caller makes on its own.
MaxStores == 2
\* Largest number of worker processes of a pool.
MaxWorkers == 2
\* Largest number of AppRunners that are still there when the frame has
\* started another one.
MaxEarlier == 1
MaxScanDims == 3
\* Number of files in the directory of the first file, and the largest
\* file stepping.
MaxDir == 4
MaxStep == 2
\* Number of images of a composite, of arrays allocated and of calls made
\* on the App of a worker.
MaxTiles == 2
MaxWorkerCalls == 3
\* Number of calls of WorkflowRunFrame.__abort_execution that wait for
\* the runner at a time, one inside the loop of the other.
MaxWaits == 2

\* --------------------------------------------------------------- constants
\* time.sleep(0.1) in _image_exists_check, in ticks of 10 ms.
SleepTicks == 10
\* timeout=0.02 passed by CompositeCreatorApp.multiprocessing_carryon.
CarryonTimeout == 2
\* timeout=-1, the default of _image_exists_check: no timeout.
NoTimeout == -1

\* Python's None, for a frame index, file index or image, for a sequence
\* or function, and for an exception.
NoIndex == -1
NoArray == << >>
NoError == [task |-> -1, cause |-> "None"]
\* None for a node object and for an object of the heap.
NoNode == 0
NoObject == 0
\* np.float32 holds every integer up to 2^24 exactly.
Float32Exact == 16777216

\* result_shape = None of a node or a plugin; the shapes of the model have
\* at least one dimension.
NoShape == << >>

\* output_data_dim = None of a plugin.
NoDim == -2

\* A dimension of a shape which is not known.
Wildcard == -1

\* No create_and_add_node call was made yet.
NoInsert == [parent |-> NoNode, node_id |-> NoIndex, returned |-> NoIndex,
             raised |-> FALSE]

\* The outcome of a get_all_result_shapes call: what it raised and for
\* which node, the dictionary it returned, whether it walked the tree, and
\* who called it.
NoShapesCall == [raised |-> "no call", named |-> NoIndex, shapes |-> << >>,
                 walked |-> FALSE, force |-> FALSE, by |-> "nobody"]

VARIABLES
    \* ---- the App and its serial run (BaseApp.run, CompositeCreatorApp)
    pc,               \* the next call of run() / of a direct file wait
    slave_mode,       \* BaseApp.slave_mode
    live_processing,  \* Parameter "live_processing"
    images_per_file,  \* ImageMetadataManager.images_per_file
    n_files,          \* FilelistManager.n_files
    filesize,         \* FilelistManager.filesize: the reference file size
    file_exists,      \* os.path.exists, per file index
    file_size,        \* os.stat(fname).st_size, per file index
    bad_frames,       \* frame indices whose import_data raises
    mp_pre_run_called,\* _config["mp_pre_run_called"]
    mp_tasks,         \* _config["mp_tasks"]
    tasks,            \* the local "tasks" of run()
    task_i,           \* position of the for loop in tasks (1-based)
    current_fname,    \* _config["current_fname"]: a file index or None
    timeout,          \* argument "timeout" of the running file wait
    elapsed,          \* time.time() - _starttime of the running file wait
    carryon,          \* the flag the last carryon / file wait returned
    results,          \* the local "_results" of run()
    composite,        \* the images inserted in the composite, by index
    caller,           \* who called the running file wait: "run" or "direct"
    calls,            \* history: the life cycle calls made, in order
    error             \* the exception that left run(), or None

VARIABLES
    \* ---- the WorkflowTree and its nodes (workflow_tree.py, workflow_node.py)
    node_ids,         \* GenericTree.node_ids: the registered ids, in order
    nodes,            \* GenericTree.nodes: node id -> node object
    root,             \* GenericTree.root: a node object, or NoNode
    node,             \* the node objects created so far, by object handle
    tree_changed,     \* GenericTree._tree_changed_flag
    heap,             \* the Python objects passed through the plugin chain
    caller_arg,       \* the object the caller passed as arg, or NoObject
    caller_kwargs,    \* the caller's keyword dictionary, or NoObject
    n_runs,           \* number of execute_process_and_get_results calls
    exec_raised,      \* whether the last chain execution raised
    tree_results,     \* the dict the last execution returned
    shapes_last,      \* history: the last get_all_result_shapes call made
                      \* since the tree was edited
    insert_call,      \* history: the last create_and_add_node call, its
                      \* arguments and what it returned
    single_call       \* history: the last execute_single_plugin call, its
                      \* node id, what it raised and what it returned

VARIABLES
    \* ---- the WorkflowResults and the scan (workflow_results.py)
    composites,       \* _WorkflowResults.__composites: node id -> array
    scan_points,      \* ScanSettings: (n_points_1, ..., n_points_dim)
    result_shapes,    \* _results: what TREE.get_all_result_shapes()
                      \* returned to the last update_shapes_from_scan
    res_prev,         \* history: the call of the aggregator before the last
    res_last,         \* history: the last call of the aggregator
    n_stores,         \* number of store_results calls made
    pending,          \* the frames of the run whose results are not stored
    variant,          \* which results the frames of the run have
    out_of_order,     \* history: a frame arrived before a lesser one
    scan_at_update,   \* history: the scan points at the last
                      \* update_shapes_from_scan that returned, or NoShape
    frame             \* a frame index a caller asked the scan about, the
                      \* position it got and the index it got back for it

resVars == <<composites, scan_points, result_shapes, res_prev, res_last,
             n_stores, pending, variant, out_of_order, scan_at_update,
             frame>>

VARIABLES
    \* ---- the run frame and the pool of its AppRunner
    runner,           \* WorkflowRunFrame._runner: "none", or its state
    stop_signal,      \* the runner was asked to stop
    task_queue,       \* the tasks no worker has taken yet
    workers,          \* per worker: idle, busy with a task, or exited
    result_queue,     \* the (task, result) sent and not yet stored
    but_exec,         \* the execute button is enabled
    but_abort,        \* the abort button is shown and enabled
    abort_requested,  \* history: the run was aborted by the frame
    post_run_called,  \* multiprocessing_post_run was called for the run
    config_source_hash, \* the frame's _config['source_hash']
    runner_ref,       \* the frame's self._runner is not None
    earlier,          \* the AppRunners the frame started before the
                      \* last one and that have not gone yet
    box,              \* the event loops the methods of the frame run
                      \* while they wait, the innermost last: for a
                      \* modal message box, or for the runner to go
                      \* after an abort
    frame_active,     \* the frame's _config['frame_active']
    frame_raised      \* what the last click or slot of the frame raised

runVars == <<runner, stop_signal, task_queue, workers, result_queue,
             but_exec, but_abort, abort_requested, post_run_called,
             config_source_hash, runner_ref, earlier, box, frame_active,
             frame_raised>>

VARIABLES
    \* ---- the FilelistManager (apps/app_utils/filelist_manager.py)
    fm_config,        \* FilelistManager._config: file_list and n_files
    filename_call     \* history: the last get_filename call, its index,
                      \* what it raised and what it returned

VARIABLES
    \* ---- the App of the controller and the copy of it that a worker
    \* holds (composite_creator_app.py)
    arrays,           \* the numpy arrays that the composites hold
    ctrl_app,         \* the controller's App: its CompositeImage.__image
    wrk_app           \* the App a worker holds, or none yet

VARIABLES
    \* ---- the FIO importer (contexts/scan/scan_io_fio.py)
    imported_params,  \* ScanIoFio.imported_params: the keys it holds
    fio_call          \* history: the last import_from_file call, its
                      \* files and what it raised

VARIABLES
    \* ---- the grid of the composite image (core/composite_image.py)
    grid,             \* Parameters composite_nx, composite_ny and
                      \* composite_dir, the number of images, and how the
                      \* last prepare_run ended
    tiles             \* the array of the composite: tile (iy, ix) -> the
                      \* index of the image insert_image wrote there

utilVars == <<fm_config, filename_call, arrays, ctrl_app, wrk_app,
              imported_params, fio_call, grid, tiles>>

treeVars == <<node_ids, nodes, root, node, tree_changed, heap, caller_arg,
              caller_kwargs, n_runs, exec_raised, tree_results, shapes_last,
              insert_call, single_call>>

appVars == <<pc, slave_mode, live_processing, images_per_file, n_files,
             filesize, file_exists, file_size, bad_frames, mp_pre_run_called,
             mp_tasks, tasks, task_i, current_fname, timeout, elapsed, carryon, results,
             composite, caller, calls, error>>

vars == <<appVars, treeVars, resVars, runVars, utilVars>>

\* ------------------------------------------------------------- helpers
Range(f) == {f[i] : i \in DOMAIN f}

\* range(n) as a sequence <<0, ..., n-1>>
PyRange(n) == [i \in 1..n |-> i - 1]

Min(a, b) == IF a < b THEN a ELSE b

Files == 0..(MaxFiles - 1)

\* The image a frame index is read as (import_data is opaque; distinct
\* frames give distinct images).
import_data(index) == index + 1

\* ------------------------------------------------- the App: serial run
\* Total number of frames: images_per_file * n_files (pre_run).
NTotal == images_per_file * n_files

\* The task the for loop of run() is at.
CurrentTask == tasks[task_i]

\* A loop that leaves after its first pass.
NextInLoopLeavesEarly ==
    /\ task_i' = task_i
    /\ pc' = "post_run"

\* The for loop of run() goes on with the next task, or leaves the loop.
NextInLoop ==
    IF task_i < Len(tasks)
    THEN /\ task_i' = task_i + 1
         /\ pc' = "pre_cycle"
    ELSE /\ task_i' = task_i
         /\ pc' = "post_run"

\* States in which an App was constructed and run() has not started.
\* Without live processing every file of the list is complete; with live
\* processing only the first file (read by prepare_run) has to be.
AppConstructed ==
    /\ slave_mode \in BOOLEAN
    /\ live_processing \in BOOLEAN
    /\ images_per_file \in 1..MaxImagesPerFile
    /\ n_files \in 1..MaxFiles
    /\ filesize = MaxFileSize
    /\ file_exists \in [Files -> BOOLEAN]
    /\ file_size \in [Files -> 0..MaxFileSize]
    /\ \A f \in Files :
         /\ (~file_exists[f]) => file_size[f] = 0
         /\ (f >= n_files) => ~file_exists[f]
         /\ (f < n_files /\ (f = 0 \/ ~live_processing))
               => (file_exists[f] /\ file_size[f] = filesize)
    /\ bad_frames \in SUBSET (0..(images_per_file * n_files - 1))
    /\ Cardinality(bad_frames) <= MaxBad
    /\ mp_pre_run_called = FALSE
    /\ mp_tasks = NoArray
    /\ tasks = NoArray
    /\ task_i = 0
    /\ current_fname = NoIndex
    /\ timeout = NoTimeout
    /\ elapsed = 0
    /\ carryon = FALSE
    /\ results = NoIndex
    /\ composite = NoArray
    /\ caller = "nobody"
    /\ calls = << >>
    /\ error = NoError

\* CompositeCreatorApp.multiprocessing_pre_run: prepare_run (in slave mode
\* the composite is dropped, else a new image is created), then the tasks.
multiprocessing_pre_run ==
    /\ pc = "pre_run"
    /\ composite' = IF slave_mode THEN NoArray
                    ELSE [i \in 0..(NTotal - 1) |-> 0]
    /\ mp_pre_run_called' = TRUE
    /\ mp_tasks' = PyRange(NTotal)
    /\ calls' = Append(calls, <<"pre_run", NoIndex>>)
    /\ pc' = "get_tasks"
    /\ UNCHANGED <<slave_mode, live_processing, images_per_file, n_files,
                   filesize, file_exists, file_size, bad_frames, tasks,
                   task_i, current_fname, timeout, elapsed, carryon,
                   results, caller, error>>

\* CompositeCreatorApp.multiprocessing_get_tasks, and the head of the loop.
multiprocessing_get_tasks ==
    /\ pc = "get_tasks"
    /\ mp_pre_run_called
    /\ tasks' = mp_tasks
    /\ calls' = Append(calls, <<"get_tasks", NoIndex>>)
    /\ IF Len(mp_tasks) > 0
       THEN task_i' = 1 /\ pc' = "pre_cycle"
       ELSE task_i' = 0 /\ pc' = "post_run"
    /\ UNCHANGED <<slave_mode, live_processing, images_per_file, n_files,
                   filesize, file_exists, file_size, bad_frames, mp_pre_run_called, mp_tasks,
                   current_fname, timeout, elapsed, carryon, results,
                   composite, caller, error>>

\* multiprocessing_pre_cycle -> _store_args_for_read_image: the file of
\* the frame is index // images_per_file.
multiprocessing_pre_cycle ==
    /\ pc = "pre_cycle"
    /\ current_fname' = CurrentTask \div images_per_file
    /\ calls' = Append(calls, <<"pre_cycle", CurrentTask>>)
    /\ pc' = "carryon"
    /\ UNCHANGED <<slave_mode, live_processing, images_per_file, n_files,
                   filesize, file_exists, file_size, bad_frames, mp_pre_run_called, mp_tasks,
                   tasks, task_i, timeout, elapsed, carryon, results,
                   composite, caller, error>>

\* What the caller of a file wait does with the returned flag: run() goes
\* on with func (True) or with the next task (False, lines 82-84: no else
\* branch); a direct call just has its value.
ReturnFlag(flag) ==
    /\ carryon' = flag
    /\ IF caller' = "run"
       THEN IF flag
            THEN pc' = "func" /\ task_i' = task_i
            ELSE NextInLoop
       ELSE pc' = "idle" /\ task_i' = task_i

\* _image_exists_check up to the while loop: the start time is taken and
\* a missing file returns False at once.
image_exists_check_enter(fname, t) ==
    /\ timeout' = t
    /\ elapsed' = 0
    /\ IF ~file_exists[fname]
       THEN ReturnFlag(FALSE)
       ELSE /\ pc' = "wait"
            /\ UNCHANGED <<carryon, task_i>>

\* CompositeCreatorApp.multiprocessing_carryon, called by run().
multiprocessing_carryon ==
    /\ pc = "carryon"
    /\ caller' = "run"
    /\ calls' = Append(calls, <<"carryon", CurrentTask>>)
    /\ IF live_processing
       THEN image_exists_check_enter(current_fname, CarryonTimeout)
       ELSE /\ ReturnFlag(TRUE)
            /\ UNCHANGED <<timeout, elapsed>>
    /\ UNCHANGED <<slave_mode, live_processing, images_per_file, n_files,
                   filesize, file_exists, file_size, bad_frames, mp_pre_run_called, mp_tasks,
                   tasks, current_fname, results, composite, error>>

\* The condition of the while loop of _image_exists_check (line 406):
\* os.stat gives the size the file has now; with the reference size the
\* call returns True, with another size it goes into the loop body.
image_exists_check_loop ==
    /\ pc = "wait"
    /\ caller' = caller
    /\ elapsed' = elapsed
    /\ IF file_size[current_fname] = filesize
       THEN ReturnFlag(TRUE)
       ELSE /\ pc' = "sleep"
            /\ UNCHANGED <<carryon, task_i>>
    /\ UNCHANGED <<slave_mode, live_processing, images_per_file, n_files,
                   filesize, file_exists, file_size, bad_frames, mp_pre_run_called, mp_tasks,
                   tasks, current_fname, timeout, results, composite,
                   calls, error>>

\* The body of the while loop (lines 407-409): time.sleep(0.1) is over,
\* whatever was written to the file meanwhile, and the call returns
\* False if "time.time() - _starttime > timeout > 0"; the size is not
\* read again before that return.
image_exists_check_sleep ==
    /\ pc = "sleep"
    /\ caller' = caller
    /\ elapsed' = Min(elapsed + SleepTicks, MaxElapsed)
    /\ IF elapsed' > timeout /\ timeout > 0
       THEN ReturnFlag(FALSE)
       ELSE /\ pc' = "wait"
            /\ UNCHANGED <<carryon, task_i>>
    /\ UNCHANGED <<slave_mode, live_processing, images_per_file, n_files,
                   filesize, file_exists, file_size, bad_frames, mp_pre_run_called, mp_tasks,
                   tasks, current_fname, timeout, results, composite,
                   calls, error>>

\* CompositeCreatorApp.multiprocessing_func: import_data of the current
\* frame.  run() has no try: an exception of func leaves run().
multiprocessing_func ==
    /\ pc = "func"
    /\ calls' = Append(calls, <<"func", CurrentTask>>)
    /\ IF CurrentTask \in bad_frames
       THEN /\ error' = [task |-> CurrentTask, cause |-> "func"]
            /\ pc' = "raised"
            /\ results' = results
       ELSE /\ results' = import_data(CurrentTask)
            /\ pc' = "store"
            /\ error' = error
    /\ UNCHANGED <<slave_mode, live_processing, images_per_file, n_files,
                   filesize, file_exists, file_size, bad_frames, mp_pre_run_called, mp_tasks,
                   tasks, task_i, current_fname, timeout, elapsed, carryon,
                   composite, caller>>

\* CompositeImageManager.insert_image, keyed by the image index.
insert_image(image, index) == [composite EXCEPT ![index] = image]

\* CompositeCreatorApp.multiprocessing_store_results: nothing in slave
\* mode, else the image is inserted in the composite.
multiprocessing_store_results ==
    /\ pc = "store"
    /\ calls' = Append(calls, <<"store_results", CurrentTask>>)
    /\ composite' = IF slave_mode THEN composite
                    ELSE insert_image(results, CurrentTask)
    /\ NextInLoop
    /\ UNCHANGED <<slave_mode, live_processing, images_per_file, n_files,
                   filesize, file_exists, file_size, bad_frames, mp_pre_run_called, mp_tasks,
                   tasks, current_fname, timeout, elapsed, carryon,
                   results, caller, error>>

\* CompositeCreatorApp.multiprocessing_post_run, the last call of run().
multiprocessing_post_run ==
    /\ pc = "post_run"
    /\ calls' = Append(calls, <<"post_run", NoIndex>>)
    /\ pc' = "done"
    /\ UNCHANGED <<slave_mode, live_processing, images_per_file, n_files,
                   filesize, file_exists, file_size, bad_frames, mp_pre_run_called, mp_tasks,
                   tasks, task_i, current_fname, timeout, elapsed, carryon,
                   results, composite, caller, error>>

\* The detector writes files while a live run polls for them: a file
\* appears (possibly incomplete) or grows towards its full size.
FileWritten(f) ==
    /\ live_processing
    /\ pc \notin {"done", "raised"}
    /\ f < n_files
    /\ \/ /\ ~file_exists[f]
          /\ file_exists' = [file_exists EXCEPT ![f] = TRUE]
          /\ file_size' = file_size
       \/ /\ file_exists[f]
          /\ file_size[f] < filesize
          /\ file_size' = [file_size EXCEPT ![f] = file_size[f] + 1]
          /\ file_exists' = file_exists
    /\ UNCHANGED <<pc, slave_mode, live_processing, images_per_file,
                   n_files, filesize, bad_frames, mp_pre_run_called, mp_tasks, tasks, task_i,
                   current_fname, timeout, elapsed, carryon, results,
                   composite, caller, calls, error>>

\* BaseApp.run
run ==
    \/ multiprocessing_pre_run
    \/ multiprocessing_get_tasks
    \/ multiprocessing_pre_cycle
    \/ multiprocessing_carryon
    \/ image_exists_check_loop
    \/ image_exists_check_sleep
    \/ multiprocessing_func
    \/ multiprocessing_store_results
    \/ multiprocessing_post_run

\* ------------------------------------------------- the WorkflowResults
\* The scans a ScanSettings may describe: one or two dimensions with
\* n_points_1, n_points_2.
ScanShapes ==
    {<<a>> : a \in 1..MaxPoints} \cup {<<a, b>> : a, b \in 1..MaxPoints}

RECURSIVE Prod(_)
Prod(s) == IF s = << >> THEN 1 ELSE Head(s) * Prod(Tail(s))

\* The number of frames of a scan.
n_total(points) == Prod(points)

\* The index tuples of an array of the given shape.
RECURSIVE Indices(_)
Indices(shape) ==
    IF shape = << >> THEN {<< >>}
    ELSE {<<i>> \o idx : i \in 0..(Head(shape) - 1),
                         idx \in Indices(Tail(shape))}

\* np.zeros(shape, dtype=np.float32)
zeros(shape) == [shape |-> shape, data |-> [idx \in Indices(shape) |-> 0]]

\* The conversion of an integer to np.float32 (24 bits of mantissa): exact
\* up to 2^24, rounded to the nearest even multiple of 2, ties to the even
\* mantissa, from there to 2^25.
float32_nonneg(v) ==
    IF v <= Float32Exact \/ v % 2 = 0 THEN v
    ELSE IF ((v - 1) \div 2) % 2 = 0 THEN v - 1 ELSE v + 1

float32(v) == IF v >= 0 THEN float32_nonneg(v) ELSE 0 - float32_nonneg(0 - v)

\* The position with the first dimension varying fastest.
get_frame_position_in_scan_first_fastest(points, index) ==
    IF index < 0 \/ index >= n_total(points)
    THEN [raised |-> "UserConfigError", pos |-> << >>]
    ELSE [raised |-> "None",
          pos |-> [d \in 1..Len(points) |->
                     (index \div Prod(SubSeq(points, 1, d - 1)))
                        % points[d]]]

\* ScanSettings.get_frame_position_in_scan(index): the position of the
\* frame in the scan, the last dimension varying fastest; an index outside
\* of the scan raises.
get_frame_position_in_scan(points, index) ==
    IF index < 0 \/ index >= n_total(points)
    THEN [raised |-> "UserConfigError", pos |-> << >>]
    ELSE [raised |-> "None",
          pos |-> [d \in 1..Len(points) |->
                     (index \div Prod(SubSeq(points, d + 1, Len(points))))
                        % points[d]]]

\* The index of the frame at the position pos of the scan, the inverse of
\* get_frame_position_in_scan: the last dimension varies fastest.
RECURSIVE get_frame_from_position(_, _)
get_frame_from_position(points, pos) ==
    IF pos = << >> THEN 0
    ELSE pos[Len(pos)]
           + points[Len(points)]
               * get_frame_from_position(SubSeq(points, 1, Len(points) - 1),
                                         SubSeq(pos, 1, Len(pos) - 1))

\* A caller asks the scan for the position of a frame, and for the frame
\* at the position it got.
NoFrame == [index |-> NoIndex, raised |-> "None", pos |-> << >>,
            back |-> NoIndex]

call_get_frame_position_in_scan(index) ==
    LET p == get_frame_position_in_scan(scan_points, index)
    IN  /\ frame' = [index |-> index, raised |-> p.raised, pos |-> p.pos,
                     back |-> NoIndex]
        /\ UNCHANGED <<composites, scan_points, result_shapes, res_prev,
                       res_last, n_stores, pending, variant, out_of_order,
                       scan_at_update>>

call_get_frame_from_position ==
    /\ frame.index # NoIndex
    /\ frame.raised = "None"
    /\ frame.back = NoIndex
    /\ frame' = [frame EXCEPT
                   !.back = get_frame_from_position(scan_points, frame.pos)]
    /\ UNCHANGED <<composites, scan_points, result_shapes, res_prev,
                   res_last, n_stores, pending, variant, out_of_order,
                   scan_at_update>>

\* Whether numpy broadcasts an array of shape (n,) to the shape cell.
Broadcasts(n, cell) ==
    \/ n = 1
    \/ Len(cell) >= 1 /\ cell[Len(cell)] = n

\* Whether the tuple pos indexes an array of the given shape: it has no
\* more entries than the array has axes, and each entry lies on its axis
\* (numpy counts a negative entry from the end of the axis).
InBounds(shape, pos) ==
    /\ Len(pos) <= Len(shape)
    /\ \A d \in 1..Len(pos) : 0 - shape[d] <= pos[d] /\ pos[d] < shape[d]

\* The entry of a position counted from the start of its axis.
Wrapped(shape, pos) ==
    [d \in 1..Len(pos) |-> IF pos[d] < 0 THEN pos[d] + shape[d] ELSE pos[d]]

\* An in-place addition instead of the assignment.
setitem_accumulating(buf, pos, val) ==
    IF ~InBounds(buf.shape, pos)
    THEN [raised |-> "IndexError", buf |-> buf]
    ELSE IF ~Broadcasts(Len(val), SubSeq(buf.shape, Len(pos) + 1,
                                         Len(buf.shape)))
    THEN [raised |-> "ValueError", buf |-> buf]
    ELSE [raised |-> "None",
          buf |-> [buf EXCEPT !.data =
                     [idx \in DOMAIN buf.data |->
                        IF SubSeq(idx, 1, Len(pos)) = Wrapped(buf.shape, pos)
                        THEN buf.data[idx]
                               + float32(IF Len(val) = 1 THEN val[1]
                                         ELSE val[idx[Len(idx)] + 1])
                        ELSE buf.data[idx]]]]

\* An assignment to the whole array, whatever the position.
setitem_everywhere(buf, pos, val) ==
    IF ~InBounds(buf.shape, pos)
    THEN [raised |-> "IndexError", buf |-> buf]
    ELSE IF ~Broadcasts(Len(val), SubSeq(buf.shape, Len(pos) + 1,
                                         Len(buf.shape)))
    THEN [raised |-> "ValueError", buf |-> buf]
    ELSE [raised |-> "None",
          buf |-> [buf EXCEPT !.data =
                     [idx \in DOMAIN buf.data |->
                        float32(IF Len(val) = 1 THEN val[1]
                                ELSE val[idx[Len(idx)] + 1])]]]

\* buf[pos] = val of a float32 array buf, pos a tuple of integers and val
\* a one-dimensional array: val is broadcast to the cells of buf at pos and
\* converted; a position outside of the array raises IndexError, a value of
\* another shape ValueError, and neither writes anything.
setitem(buf, pos, val) ==
    IF ~InBounds(buf.shape, pos)
    THEN [raised |-> "IndexError", buf |-> buf]
    ELSE IF ~Broadcasts(Len(val), SubSeq(buf.shape, Len(pos) + 1,
                                         Len(buf.shape)))
    THEN [raised |-> "ValueError", buf |-> buf]
    ELSE [raised |-> "None",
          buf |-> [buf EXCEPT !.data =
                     [idx \in DOMAIN buf.data |->
                        IF SubSeq(idx, 1, Len(pos)) = Wrapped(buf.shape, pos)
                        THEN float32(IF Len(val) = 1 THEN val[1]
                                     ELSE val[idx[Len(idx)] + 1])
                        ELSE buf.data[idx]]]]

\* for _key, _val in results_dict.items():
\*     self.__composites[_key][_scan_index] = _val
\* from the i-th item on: the items are written one after the other, the
\* first one that raises ends the loop.
RECURSIVE store_items(_, _, _, _)
store_items(comp, pos, items, i) ==
    IF i > Len(items) THEN [raised |-> "None", composites |-> comp]
    ELSE IF items[i].key \notin DOMAIN comp
    THEN [raised |-> "KeyError", composites |-> comp]
    ELSE LET w == setitem(comp[items[i].key], pos, items[i].val)
         IN  IF w.raised # "None"
             THEN [raised |-> w.raised, composites |-> comp]
             ELSE store_items([comp EXCEPT ![items[i].key] = w.buf],
                              pos, items, i + 1)

\* The results are written at the first frame of the scan, whatever the
\* index.
store_results_at_first_frame(comp, points, index, results_dict) ==
    LET p == get_frame_position_in_scan(points, index)
    IN  IF p.raised # "None"
        THEN [raised |-> p.raised, composites |-> comp]
        ELSE store_items(comp, [d \in 1..Len(points) |-> 0], results_dict, 1)

\* _WorkflowResults.store_results(index, results_dict) on the composites
\* comp with the scan points; results_dict is the sequence of its items.
store_results(comp, points, index, results_dict) ==
    LET p == get_frame_position_in_scan(points, index)
    IN  IF p.raised # "None"
        THEN [raised |-> p.raised, composites |-> comp]
        ELSE store_items(comp, p.pos, results_dict, 1)

\* A call of the aggregator: what was called with which arguments and
\* what it raised.
NoCall == [op |-> "none", index |-> NoIndex, results |-> << >>,
           raised |-> "None"]

\* The call store_results(index, results_dict) of the aggregator.
call_store_results(index, results_dict) ==
    LET r == store_results(composites, scan_points, index, results_dict)
    IN  /\ composites' = r.composites
        /\ res_prev' = res_last
        /\ res_last' = [op |-> "store", index |-> index,
                        results |-> results_dict, raised |-> r.raised]
        /\ n_stores' = n_stores + 1
        /\ UNCHANGED <<scan_points, result_shapes, variant, scan_at_update,
                       frame>>

\* The results dictionaries passed to store_results: a result for leaf 1;
\* one value, which float32 does not hold, broadcast to leaf 1; results for
\* both leaves; a result for leaf 1 and one for node 0, the root, which
\* has no composite;
\* a result of a shape that does not fit.
Item(k, v) == [key |-> k, val |-> v]

ResultDicts ==
    { << Item(1, <<1, 2>>) >>,
      << Item(1, <<Float32Exact + 1>>) >>,
      << Item(2, <<4>>), Item(1, <<5, 6>>) >>,
      << Item(1, <<7, 8>>), Item(0, <<9>>) >>,
      << Item(1, <<1, 2, 3>>) >> }

\* A caller storing results of its own choice.
store_any(index, results_dict) ==
    /\ n_stores < MaxStores
    /\ call_store_results(index, results_dict)
    /\ UNCHANGED <<pending, out_of_order>>

\* The results of the frames of a run, as the plugins of a tree make
\* them: results for both leaves; one value for leaf 1; a result for leaf
\* 1 from the even frames and for leaf 2 from the odd ones; results for
\* leaf 1 and for node 0, the root, which has no composite.
Variants == {"full", "broadcast", "alternate", "drift"}

task_results(v, t) ==
    CASE v = "full" ->
           << Item(1, <<10 * (t + 1) + 1, 10 * (t + 1) + 2>>),
              Item(2, <<10 * (t + 1)>>) >>
      [] v = "broadcast" -> << Item(1, <<10 * (t + 1)>>) >>
      [] v = "alternate" ->
           IF t % 2 = 0 THEN << Item(1, <<10 * (t + 1), 1>>) >>
           ELSE << Item(2, <<10 * (t + 1)>>) >>
      [] OTHER ->
           << Item(1, <<10 * (t + 1), 2>>), Item(0, <<t>>) >>

\* The controller stores the results of the frame t of the run, which a
\* worker has sent; the frames arrive in any order, each once.
deliver(t) ==
    /\ t \in pending
    /\ call_store_results(t, task_results(variant, t))
    /\ pending' = pending \ {t}
    /\ out_of_order' = (out_of_order \/ \E s \in pending : s < t)

\* WorkflowResults(): no composites.
ResultsConstructed ==
    /\ composites = << >>
    /\ scan_points \in ScanShapes
    /\ result_shapes = << >>
    /\ res_prev = NoCall
    /\ res_last = NoCall
    /\ n_stores = 0
    /\ pending = 0..(n_total(scan_points) - 1)
    /\ variant \in Variants
    /\ out_of_order = FALSE
    /\ scan_at_update = NoShape
    /\ frame = NoFrame

\* ------------------------------------------------------ the WorkflowTree
\* What a plugin's execute does with its input (the computation itself is
\* opaque): "double" returns a new object with twice the data, "inplace"
\* doubles the data of its input object and sets a key of its keyword
\* dictionary, "deep" changes an object nested in its input and one nested
\* in its keywords in place, "raise" raises.
PluginKinds == {"double", "inplace", "deep", "raise"}

\* A Python object: its own content (data) and a reference to an object
\* nested in it (meta; e.g. the metadata dict of a Dataset, which
\* EmptyDataset.__array_finalize__ hands to a copy as it is, or a list
\* held by a keyword dictionary).
Object(d, m) == [data |-> d, meta |-> m]

\* copy.copy(obj): a new object with the same content; the nested object
\* is shared (the copy is shallow).  The copy is the last object of the
\* returned heap.
copy(h, a) == Append(h, h[a])

Last(h) == Len(h)

\* plugin.execute(data, **kwargs) -> (res, reskws)
PluginExecute(kind, h, data, kwargs) ==
    CASE kind = "double" ->
           [heap |-> Append(h, Object(2 * h[data].data, h[data].meta)),
            res |-> Len(h) + 1, reskws |-> kwargs, raised |-> FALSE]
      [] kind = "inplace" ->
           [heap |-> [h EXCEPT ![data].data = 2 * @, ![kwargs].data = @ + 1],
            res |-> data, reskws |-> kwargs, raised |-> FALSE]
      [] kind = "deep" ->
           [heap |-> [h EXCEPT ![h[data].meta].data = @ + 1,
                               ![h[kwargs].meta].data = @ + 1],
            res |-> data, reskws |-> kwargs, raised |-> FALSE]
      [] OTHER ->
           [heap |-> h, res |-> NoObject, reskws |-> NoObject,
            raised |-> TRUE]

\* GenericNode.is_leaf
is_leaf(nd, h) == Len(nd[h].children) = 0

\* A chain that does not descend into the children.
execute_plugin_chain_no_children(st, h, arg, kwargs) ==
    LET h1 == copy(st.heap, arg)
        h2 == copy(h1, kwargs)
        r  == PluginExecute(st.node[h].plugin, h2, Last(h1), Last(h2))
    IN  IF r.raised
        THEN [st EXCEPT !.heap = r.heap, !.raised = TRUE,
                        !.node[h].executed = TRUE]
        ELSE [st EXCEPT !.heap = r.heap,
                        !.node[h].executed = TRUE,
                        !.node[h].results = r.res,
                        !.node[h].result_kws = r.reskws]

\* WorkflowNode.execute_plugin_chain(arg, **kwargs) on the node object h,
\* in the state st = [heap, node, raised].  The plugin gets copy(arg) and
\* a copy of the keyword dictionary (copy(kwargs), which ** unpacks: one
\* shallow copy); each child is called with res and reskws in the order
\* of the children; a leaf keeps res and reskws.  An exception of a plugin
\* leaves every enclosing call at once.
RECURSIVE execute_plugin_chain(_, _, _, _)
RECURSIVE execute_children(_, _, _, _, _)
execute_plugin_chain(st, h, arg, kwargs) ==
    LET h1 == copy(st.heap, arg)
        h2 == copy(h1, kwargs)
        r  == PluginExecute(st.node[h].plugin, h2, Last(h1), Last(h2))
    IN  IF r.raised
        THEN [st EXCEPT !.heap = r.heap, !.raised = TRUE,
                        !.node[h].executed = TRUE]
        ELSE LET st1 == execute_children([st EXCEPT !.heap = r.heap,
                                              !.node[h].executed = TRUE],
                                         st.node[h].children, 1,
                                         r.res, r.reskws)
             IN  IF st1.raised \/ ~is_leaf(st.node, h)
                 THEN st1
                 ELSE [st1 EXCEPT !.node[h].results = r.res,
                                  !.node[h].result_kws = r.reskws]

\* for _child in self._children: _child.execute_plugin_chain(res, **reskws)
execute_children(st, children, i, res, reskws) ==
    IF i > Len(children) \/ st.raised
    THEN st
    ELSE execute_children(execute_plugin_chain(st, children[i], res, reskws),
                          children, i + 1, res, reskws)

\* GenericTree.get_all_leaves: the registered nodes without children, in
\* the order of their registration.
get_all_leaves(nd) ==
    SelectSeq([i \in 1..Len(node_ids) |-> nodes[node_ids[i]]],
              LAMBDA h : is_leaf(nd, h))

\* GenericTree.get_new_nodeid: one more than the largest id in use.
get_new_nodeid ==
    IF Len(node_ids) = 0 THEN 0
    ELSE 1 + CHOOSE m \in Range(node_ids) : \A j \in Range(node_ids) : j <= m

\* WorkflowNode(plugin=plugin, parent=parent, node_id=node_id): a new node
\* object; GenericNode links it to a given parent.
NewNode == Len(node) + 1

WorkflowNode(kind, parent, node_id) ==
    LET nd == Append(node, [node_id |-> node_id, parent |-> parent,
                            children |-> << >>, plugin |-> kind,
                            results |-> NoObject, result_kws |-> NoObject,
                            result_shape |-> NoShape,
                            pre_executed |-> FALSE, executed |-> FALSE])
    IN  IF parent = NoNode THEN nd
        ELSE [nd EXCEPT ![parent].children = Append(@, NewNode)]

\* GenericNode.add_child(child) of the node object h.
add_child(nd, h, child) ==
    [nd EXCEPT ![h].children = Append(@, child), ![child].parent = h]

\* GenericTree.set_root(node): the tree holds this node only.
set_root(nd, h) ==
    LET id == IF nd[h].node_id = NoIndex THEN 0 ELSE nd[h].node_id
    IN  /\ node' = [nd EXCEPT ![h].node_id = id]
        /\ root' = h
        /\ node_ids' = <<id>>
        /\ nodes' = (id :> h)
        /\ tree_changed' = TRUE

\* A register_node which takes the place of the node that has the id.
register_node_replacing(nd, h, node_id) ==
    LET id == IF node_id = NoIndex THEN get_new_nodeid ELSE node_id
    IN  /\ node' = [nd EXCEPT ![h].node_id = id]
        /\ node_ids' = IF id \in Range(node_ids) THEN node_ids
                       ELSE Append(node_ids, id)
        /\ nodes' = [i \in DOMAIN nodes \cup {id} |->
                       IF i = id THEN h ELSE nodes[i]]
        /\ tree_changed' = TRUE
        /\ root' = root

\* GenericTree.register_node(node, node_id): the node is registered under
\* the given id or a new one; an id in use raises and registers nothing.
register_node(nd, h, node_id) ==
    LET id == IF node_id = NoIndex THEN get_new_nodeid ELSE node_id
    IN  IF id \in Range(node_ids)
        THEN /\ node' = nd
             /\ UNCHANGED <<root, node_ids, nodes, tree_changed>>
        ELSE /\ node' = [nd EXCEPT ![h].node_id = id]
             /\ node_ids' = Append(node_ids, id)
             /\ nodes' = nodes @@ (id :> h)
             /\ tree_changed' = TRUE
             /\ root' = root

\* A create_and_add_node which puts a node without parent below the root.
create_and_add_node_below_root(kind, parent, node_id) ==
    /\ Len(node) < MaxNodes
    /\ LET nd == WorkflowNode(kind, parent, node_id)
       IN  IF Len(node_ids) = 0
           THEN set_root(nd, NewNode)
           ELSE IF parent = NoNode
                THEN register_node(add_child(nd, root, NewNode),
                                   NewNode, node_id)
                ELSE register_node(nd, NewNode, node_id)
    /\ insert_call' = [parent |-> parent, node_id |-> node_id,
                       returned |-> NoIndex,
                       raised |-> Len(node_ids) > 0
                                    /\ node_id \in Range(node_ids)]
    /\ shapes_last' = NoShapesCall
    /\ UNCHANGED <<heap, caller_arg, caller_kwargs, n_runs, exec_raised,
                   tree_results, single_call>>

\* _WorkflowTree.create_and_add_node(plugin, parent=None, node_id=None):
\* the first node becomes the root; a later node without parent becomes a
\* child of the latest registered node; then it is registered, which
\* raises for an id in use.  The method has no return value: the caller
\* gets None.
create_and_add_node(kind, parent, node_id) ==
    /\ Len(node) < MaxNodes
    /\ LET nd == WorkflowNode(kind, parent, node_id)
       IN  IF Len(node_ids) = 0
           THEN set_root(nd, NewNode)
           ELSE IF parent = NoNode
                THEN register_node(
                         add_child(nd, nodes[node_ids[Len(node_ids)]], NewNode),
                         NewNode, node_id)
                ELSE register_node(nd, NewNode, node_id)
    /\ insert_call' = [parent |-> parent, node_id |-> node_id,
                       returned |-> NoIndex,
                       raised |-> Len(node_ids) > 0
                                    /\ node_id \in Range(node_ids)]
    /\ shapes_last' = NoShapesCall
    /\ UNCHANGED <<heap, caller_arg, caller_kwargs, n_runs, exec_raised,
                   tree_results, single_call>>

\* WorkflowNode.prepare_execution() of the node object h: pre_execute of
\* its plugin, then prepare_execution of its children in their order.
RECURSIVE node_prepare_execution(_, _)
RECURSIVE prepare_children(_, _, _)
node_prepare_execution(nd, h) ==
    prepare_children([nd EXCEPT ![h].pre_executed = TRUE], nd[h].children, 1)

prepare_children(nd, children, i) ==
    IF i > Len(children) THEN nd
    ELSE prepare_children(node_prepare_execution(nd, children[i]),
                          children, i + 1)

\* _WorkflowTree.prepare_execution(): prepare_execution of the root.
prepare_execution ==
    /\ root # NoNode
    /\ node' = node_prepare_execution(node, root)
    /\ UNCHANGED <<node_ids, nodes, root, tree_changed, heap, caller_arg,
                   caller_kwargs, n_runs, exec_raised, tree_results,
                   shapes_last, insert_call, single_call>>

\* No execute_single_plugin call was made.
NoSingle == [count |-> 0, node_id |-> NoIndex, raised |-> "None",
             res |-> NoObject, kwargs |-> NoObject]

\* _WorkflowTree.execute_single_plugin(node_id, arg, **kwargs) with a fresh
\* arg object of content x and a fresh keyword dictionary, each with a
\* nested object: an id which is not registered raises KeyError; else the
\* node of this id and the nodes below it are prepared, and the plugin of
\* the node is executed with arg itself (WorkflowNode.execute_plugin makes
\* no copy) and the keywords packed anew (**kwargs: a shallow copy).  The
\* call returns the result of the plugin and the keywords as the tree got
\* them; the node keeps no result.
execute_single_plugin(node_id, x) ==
    /\ single_call.count < MaxSingleCalls
    /\ IF node_id \notin DOMAIN nodes
       THEN /\ single_call' = [count |-> single_call.count + 1,
                               node_id |-> node_id, raised |-> "KeyError",
                               res |-> NoObject, kwargs |-> NoObject]
            /\ UNCHANGED <<node, heap, caller_arg, caller_kwargs,
                           exec_raised>>
       ELSE LET h   == nodes[node_id]
                h0  == heap \o << Object(0, NoObject),
                                  Object(x, Len(heap) + 1),
                                  Object(0, NoObject),
                                  Object(0, Len(heap) + 3) >>
                arg == Len(heap) + 2
                kw  == Len(heap) + 4
                nd  == node_prepare_execution(node, h)
                h1  == copy(h0, kw)
                h2  == copy(h1, Last(h1))
                r   == PluginExecute(nd[h].plugin, h2, arg, Last(h2))
            IN  /\ node' = [nd EXCEPT ![h].executed = TRUE]
                /\ heap' = r.heap
                /\ caller_arg' = arg
                /\ caller_kwargs' = kw
                /\ exec_raised' = r.raised
                /\ single_call' =
                     [count |-> single_call.count + 1, node_id |-> node_id,
                      raised |-> IF r.raised THEN "Exception" ELSE "None",
                      res |-> r.res,
                      kwargs |-> IF r.raised THEN NoObject ELSE Last(h1)]
    /\ UNCHANGED <<node_ids, nodes, root, tree_changed, n_runs,
                   tree_results, shapes_last, insert_call>>

\* _WorkflowTree.execute_process_and_get_results(arg, **kwargs) with a
\* fresh arg object of content x and a fresh keyword dictionary, each with
\* a nested object: execute_process runs the chain from the root, then the
\* results of the leaves that have one are collected by node id.
execute_process_and_get_results(x) ==
    /\ root # NoNode
    /\ n_runs < MaxRuns
    /\ LET h0  == heap \o << Object(0, NoObject),
                             Object(x, Len(heap) + 1),
                             Object(0, NoObject),
                             Object(0, Len(heap) + 3) >>
           arg == Len(heap) + 2
           kw  == Len(heap) + 4
           st  == execute_plugin_chain(
                      [heap |-> h0, node |-> node, raised |-> FALSE],
                      root, arg, kw)
           leaves == get_all_leaves(st.node)
           with == {i \in 1..Len(leaves) : st.node[leaves[i]].results # NoObject}
       IN  /\ caller_arg' = arg
           /\ caller_kwargs' = kw
           /\ heap' = st.heap
           /\ node' = st.node
           /\ exec_raised' = st.raised
           /\ tree_results' =
                IF st.raised THEN << >>
                ELSE [id \in {st.node[leaves[i]].node_id : i \in with} |->
                        st.node[nodes[id]].results]
    /\ n_runs' = n_runs + 1
    /\ UNCHANGED <<node_ids, nodes, root, tree_changed, shapes_last,
                   insert_call, single_call>>

\* WorkflowTree(): an empty tree.
TreeConstructed ==
    /\ node_ids = << >>
    /\ nodes = << >>
    /\ root = NoNode
    /\ node = << >>
    /\ tree_changed = FALSE
    /\ heap = << >>
    /\ caller_arg = NoObject
    /\ caller_kwargs = NoObject
    /\ n_runs = 0
    /\ exec_raised = FALSE
    /\ tree_results = << >>
    /\ shapes_last = NoShapesCall
    /\ insert_call = NoInsert
    /\ single_call = NoSingle

\* ------------------------------------------ the shapes of the results
\* The plugins as far as their result shapes go: "loader" is an input
\* plugin, whose result has the shape of its images (frame_loader.py);
\* "keep" hands its input on (keep_data.py, output_data_dim = -1); "sized"
\* is a plugin with a positive output_data_dim; "fit" yields one value
\* (fit_single_peak.py, output "Peak area"); "nodata" is a plugin whose
\* output_data_dim is None: it has no result data for the composites.
ShapeKinds == {"loader", "keep", "sized", "fit", "nodata"}

\* The shape of the images of a loader; the images of the model have one
\* dimension.
ImageShape == <<2>>

\* plugin.output_data_dim
output_data_dim(kind) ==
    CASE kind \in {"loader", "sized"} -> 1
      [] kind = "fit" -> 0
      [] kind = "nodata" -> NoDim
      [] OTHER -> -1

\* plugin.calculate_result_shape() of a plugin with the given input_shape,
\* as result_shape: the shape of the images for an input plugin, one value
\* for the fit; else the input shape, and without one None or as many
\* unknown dimensions as output_data_dim says (None for a plugin that has
\* no output_data_dim).
calculate_result_shape(kind, input_shape) ==
    CASE kind = "loader" -> ImageShape
      [] kind = "fit" -> <<1>>
      [] OTHER ->
           IF input_shape # NoShape \/ output_data_dim(kind) \in {-1, NoDim}
           THEN input_shape
           ELSE [i \in 1..output_data_dim(kind) |-> Wildcard]

\* The result shape of the node h, when every plugin from the root down to
\* h has calculated its shape from the result shape of its parent; the
\* root has no input shape.
RECURSIVE shape_from_root(_, _)
shape_from_root(nd, h) ==
    calculate_result_shape(
        nd[h].plugin,
        IF nd[h].parent = NoNode THEN NoShape
        ELSE shape_from_root(nd, nd[h].parent))

\* Whether the node h is the node r or below it.
RECURSIVE descends_from(_, _, _)
descends_from(nd, h, r) ==
    \/ h = r
    \/ nd[h].parent # NoNode /\ descends_from(nd, nd[h].parent, r)

\* WorkflowNode.propagate_shapes_and_global_config() of the node r: a walk
\* from r to the leaves, every node gets the result shape of its plugin.
propagate_shapes_and_global_config(nd, r) ==
    [h \in DOMAIN nd |->
       IF descends_from(nd, h, r)
       THEN [nd[h] EXCEPT !.result_shape = shape_from_root(nd, h)]
       ELSE nd[h]]

\* _WorkflowTree.get_all_result_shapes(force_update): without a root it
\* raises; the shapes are propagated from the root if a leaf has none, if
\* the tree has changed or if the caller says so, and the flag is reset;
\* the shapes of the leaves whose plugin has an output_data_dim are
\* collected by node id; the first of them with -1 in it raises and names
\* its node ("-1 in None" is a TypeError).
get_all_result_shapes(force_update) ==
    IF root = NoNode
    THEN [raised |-> "AppConfigError", named |-> NoIndex,
          shapes |-> << >>, node |-> node,
          tree_changed |-> tree_changed, walked |-> FALSE]
    ELSE LET leaves == get_all_leaves(node)
             walk == \/ \E i \in 1..Len(leaves) :
                           node[leaves[i]].result_shape = NoShape
                     \/ tree_changed
                     \/ force_update
             nd == IF walk
                   THEN propagate_shapes_and_global_config(node, root)
                   ELSE node
             kept == SelectSeq(leaves,
                        LAMBDA h : output_data_dim(nd[h].plugin) # NoDim)
             bad == {i \in 1..Len(kept) :
                       \/ nd[kept[i]].result_shape = NoShape
                       \/ Wildcard \in Range(nd[kept[i]].result_shape)}
             first == CHOOSE i \in bad : \A j \in bad : i <= j
         IN  IF bad # {}
             THEN [raised |-> IF nd[kept[first]].result_shape = NoShape
                              THEN "TypeError" ELSE "AppConfigError",
                   named |-> IF nd[kept[first]].result_shape = NoShape
                             THEN NoIndex ELSE nd[kept[first]].node_id,
                   shapes |-> << >>, node |-> nd,
                   tree_changed |-> tree_changed /\ ~walk, walked |-> walk]
             ELSE [raised |-> "None", named |-> NoIndex,
                   shapes |-> [id \in {nd[kept[i]].node_id :
                                         i \in 1..Len(kept)} |->
                                 nd[nodes[id]].result_shape],
                   node |-> nd, tree_changed |-> tree_changed /\ ~walk,
                   walked |-> walk]

\* A caller of TREE.get_all_result_shapes(force_update).
call_get_all_result_shapes(force_update) ==
    LET r == get_all_result_shapes(force_update)
    IN  /\ node' = r.node
        /\ tree_changed' = r.tree_changed
        /\ shapes_last' = [raised |-> r.raised, named |-> r.named,
                           shapes |-> r.shapes, walked |-> r.walked,
                           force |-> force_update, by |-> "caller"]
        /\ UNCHANGED <<node_ids, nodes, root, heap, caller_arg,
                       caller_kwargs, n_runs, exec_raised, tree_results,
                       insert_call, single_call>>

\* _WorkflowResults.update_shapes_from_scan(): the shapes of the leaves
\* are asked from the tree; if that returns, a new array of zeros of the
\* shape scan points + result shape is made for every one of them; a
\* composite of another key stays.
update_shapes_from_scan ==
    LET r == get_all_result_shapes(FALSE)
    IN  /\ node' = r.node
        /\ tree_changed' = r.tree_changed
        /\ shapes_last' = [raised |-> r.raised, named |-> r.named,
                           shapes |-> r.shapes, walked |-> r.walked,
                           force |-> FALSE, by |-> "update_shapes_from_scan"]
        /\ IF r.raised # "None"
           THEN UNCHANGED <<composites, result_shapes, scan_at_update>>
           ELSE /\ result_shapes' = r.shapes
                /\ scan_at_update' = scan_points
                /\ composites' =
                     [key \in DOMAIN composites \cup DOMAIN r.shapes |->
                        IF key \in DOMAIN r.shapes
                        THEN zeros(scan_points \o r.shapes[key])
                        ELSE composites[key]]
        /\ res_prev' = res_last
        /\ res_last' = [NoCall EXCEPT !.op = "update", !.raised = r.raised]
        /\ UNCHANGED <<scan_points, n_stores, pending, variant, out_of_order,
                       frame>>
        /\ UNCHANGED <<node_ids, nodes, root, heap, caller_arg,
                       caller_kwargs, n_runs, exec_raised, tree_results,
                       insert_call, single_call>>

\* SCAN.set_param_value('scan_dim', ...) and ('n_points_<i>', ...): the
\* scan gets other numbers of points.
set_scan_points(points) ==
    /\ points # scan_points
    /\ scan_points' = points
    /\ UNCHANGED <<composites, result_shapes, res_prev, res_last, n_stores,
                   pending, variant, out_of_order, scan_at_update, frame>>

\* self._result2_shape of the test, (3, 3, 5), with smaller axes.
Result2Shape == <<1, 1, 2>>

\* The tree of test_workflow_result_selector.py after set_up_tree: a loader
\* as root, node 1 below it, node 2 with parent = root, both of the same
\* plugin class that keeps the shape of its input, then
\* TREE.prepare_execution() and the result shape of node 2 set by hand.
\* The update of the test then allocates scan + (12, 27) for node 1 and
\* scan + (3, 3, 5) for node 2 (test_populate_WorkflowResults): the tree
\* has calculated its shapes and is not marked as changed when set_up_tree
\* returns, for a walk gives two nodes of one class below one parent the
\* same shape.  A later walk (force_update, or after an edit of the tree)
\* replaces the shape set by hand.
TreeOfTest ==
    /\ node_ids = <<0, 1, 2>>
    /\ nodes = (0 :> 1) @@ (1 :> 2) @@ (2 :> 3)
    /\ root = 1
    /\ node = << [node_id |-> 0, parent |-> NoNode, children |-> <<2, 3>>,
                  plugin |-> "loader", results |-> NoObject,
                  result_kws |-> NoObject, result_shape |-> ImageShape,
                  pre_executed |-> TRUE, executed |-> FALSE],
                 [node_id |-> 1, parent |-> 1, children |-> << >>,
                  plugin |-> "keep", results |-> NoObject,
                  result_kws |-> NoObject, result_shape |-> ImageShape,
                  pre_executed |-> TRUE, executed |-> FALSE],
                 [node_id |-> 2, parent |-> 1, children |-> << >>,
                  plugin |-> "keep", results |-> NoObject,
                  result_kws |-> NoObject, result_shape |-> Result2Shape,
                  pre_executed |-> TRUE, executed |-> FALSE] >>
    /\ tree_changed = FALSE
    /\ heap = << >>
    /\ caller_arg = NoObject
    /\ caller_kwargs = NoObject
    /\ n_runs = 0
    /\ exec_raised = FALSE
    /\ tree_results = << >>
    /\ shapes_last = NoShapesCall
    /\ insert_call = NoInsert
    /\ single_call = NoSingle

\* ------------------------------------ the run frame and the worker pool
Workers == 1..MaxWorkers

\* A worker that waits for a task.
IdleWorker == [state |-> "idle", task |-> NoIndex]

AllWorkersExited == \A w \in Workers : workers[w].state = "exited"

\* What a run of the pool leaves alone in the App of the frame.
AppKept ==
    UNCHANGED <<pc, slave_mode, live_processing, images_per_file, n_files,
                filesize, file_exists, file_size, bad_frames, tasks, task_i,
                current_fname, timeout, elapsed, carryon, results, caller,
                calls, error>>

\* What the pool leaves alone in the frame.
FrameKept ==
    UNCHANGED <<config_source_hash, runner_ref, earlier, box, frame_active,
                frame_raised>>

\* WorkflowRunFrame.__set_proc_widget_visibility_for_running(running)
set_proc_widget_visibility_for_running(running) ==
    /\ but_exec' = ~running
    /\ but_abort' = running

\* RESULTS.source_hash: the fingerprint of what the results are made for,
\* the scan, the topology of the tree and the result shapes of its nodes.
source_hash(points, ids, nd) ==
    <<points, ids,
      [h \in DOMAIN nd |->
         <<nd[h].parent, nd[h].children, nd[h].result_shape>>]>>

\* Whether the update of the results, which the frame asks for when the
\* fingerprint is not the one it holds, raises.
VerifyRaises ==
    /\ source_hash(scan_points, node_ids, node) # config_source_hash
    /\ get_all_result_shapes(FALSE).raised # "None"

\* _verify_result_shapes_uptodate of the frame: if the fingerprint of the
\* results is not the one the frame holds, the results are updated from
\* the scan and the tree (new composites, the tree calculates its shapes)
\* and the frame takes the new fingerprint; an exception of the update
\* leaves the method.
verify_result_shapes_uptodate ==
    IF source_hash(scan_points, node_ids, node) # config_source_hash
    THEN /\ update_shapes_from_scan
         /\ config_source_hash' =
              IF VerifyRaises THEN config_source_hash
              ELSE source_hash(scan_points, node_ids,
                               get_all_result_shapes(FALSE).node)
    ELSE UNCHANGED <<treeVars, resVars, config_source_hash>>

\* WorkflowRunFrame.__execute -> _run_app, on a click on the execute
\* button: the results are brought up to date first, and an exception of
\* that ends the click; nothing is run for an empty tree; else the App's
\* pre_run is called, the buttons are set for a run, an AppRunner is
\* created and started (it takes the tasks of the App and starts its
\* workers).
run_app ==
    /\ but_exec
    /\ verify_result_shapes_uptodate
    /\ IF VerifyRaises \/ root = NoNode
       THEN UNCHANGED <<composite, mp_pre_run_called, mp_tasks, runner,
                        stop_signal, task_queue, workers, result_queue,
                        but_exec, but_abort, abort_requested,
                        post_run_called>>
       ELSE /\ composite' = IF slave_mode THEN NoArray
                            ELSE [i \in 0..(NTotal - 1) |-> 0]
            /\ mp_pre_run_called' = TRUE
            /\ mp_tasks' = PyRange(NTotal)
            /\ set_proc_widget_visibility_for_running(TRUE)
            /\ runner' = "running"
            /\ stop_signal' = FALSE
            /\ task_queue' = PyRange(NTotal)
            /\ workers' = [w \in Workers |-> IdleWorker]
            /\ result_queue' = {}
            /\ abort_requested' = FALSE
            /\ post_run_called' = FALSE
    /\ runner_ref' = (runner' # "none")
    /\ frame_raised' = IF VerifyRaises
                       THEN get_all_result_shapes(FALSE).raised ELSE "None"
    /\ UNCHANGED <<earlier, box, frame_active>>
    /\ AppKept

\* WorkflowRunFrame.__abort_execution, on a click on the abort button:
\* the button is disabled and the runner, if there is one, is asked to
\* stop; the method then handles events in a loop until the runner is
\* gone. The loop delivers clicks too, so that the slot can be entered
\* again while an earlier call of it still waits.
abort_execution ==
    /\ but_abort
    /\ runner # "none" => Len(box) < MaxWaits
    /\ but_abort' = FALSE
    /\ abort_requested' = (runner # "none")
    /\ stop_signal' = (stop_signal \/ runner # "none")
    /\ box' = IF runner # "none" THEN Append(box, "abort") ELSE box
    /\ frame_raised' = "None"
    /\ UNCHANGED <<runner, task_queue, workers, result_queue, but_exec,
                   post_run_called, composite, mp_pre_run_called, mp_tasks>>
    /\ AppKept
    /\ UNCHANGED <<config_source_hash, runner_ref, earlier, frame_active>>

\* The innermost loop of __abort_execution finds the runner gone (the
\* finished signal was handled meanwhile) and the method returns, to the
\* loop of the call it was entered from if there is one.
abort_execution_returns ==
    /\ box # << >>
    /\ box[Len(box)] = "abort"
    /\ runner = "none"
    /\ box' = SubSeq(box, 1, Len(box) - 1)
    /\ UNCHANGED <<runner, stop_signal, task_queue, workers, result_queue,
                   but_exec, but_abort, abort_requested, post_run_called,
                   composite, mp_pre_run_called, mp_tasks>>
    /\ AppKept
    /\ UNCHANGED <<config_source_hash, runner_ref, earlier, frame_active,
                   frame_raised>>

\* The innermost loop of __abort_execution finds the runner still there
\* after five seconds and raises UserConfigError; the runner goes on with
\* its stop, and a call the slot was entered from goes on waiting.
abort_execution_timeout ==
    /\ box # << >>
    /\ box[Len(box)] = "abort"
    /\ runner # "none"
    /\ box' = SubSeq(box, 1, Len(box) - 1)
    /\ frame_raised' = "UserConfigError"
    /\ UNCHANGED <<runner, stop_signal, task_queue, workers, result_queue,
                   but_exec, but_abort, abort_requested, post_run_called,
                   composite, mp_pre_run_called, mp_tasks>>
    /\ AppKept
    /\ UNCHANGED <<config_source_hash, runner_ref, earlier, frame_active>>

\* WorkflowRunFrame.frame_activated(index), this says whether index is
\* the index of the frame: the frame notes whether it is the one shown.
\* The slot of the base class and the two updates of the result
\* selection touch nothing else of what is tracked here.
WorkflowRunFrame_frame_activated(this) ==
    /\ frame_active' = this
    /\ frame_raised' = "None"
    /\ UNCHANGED <<runner, stop_signal, task_queue, workers, result_queue,
                   but_exec, but_abort, abort_requested, post_run_called,
                   composite, mp_pre_run_called, mp_tasks>>
    /\ AppKept
    /\ UNCHANGED <<config_source_hash, runner_ref, earlier, box>>

\* A worker that takes a task whether or not the runner was asked to stop.
worker_get_task_after_stop(w) ==
    /\ runner = "running"
    /\ workers[w].state = "idle"
    /\ Len(task_queue) > 0
    /\ workers' = [workers EXCEPT ![w] = [state |-> "busy",
                                          task |-> Head(task_queue)]]
    /\ task_queue' = Tail(task_queue)
    /\ UNCHANGED <<runner, stop_signal, result_queue, but_exec,
                   but_abort, abort_requested, post_run_called, composite,
                   mp_pre_run_called, mp_tasks>>
    /\ AppKept
    /\ FrameKept

\* A worker takes the next task from the queue, unless the runner was
\* asked to stop.
worker_get_task(w) ==
    /\ runner = "running"
    /\ ~stop_signal
    /\ workers[w].state = "idle"
    /\ Len(task_queue) > 0
    /\ workers' = [workers EXCEPT ![w] = [state |-> "busy",
                                          task |-> Head(task_queue)]]
    /\ task_queue' = Tail(task_queue)
    /\ UNCHANGED <<runner, stop_signal, result_queue, but_exec, but_abort,
                   abort_requested, post_run_called, composite,
                   mp_pre_run_called, mp_tasks>>
    /\ AppKept
    /\ FrameKept

\* A worker finishes its task (pre_cycle, carryon, func on its copy of
\* the App) and sends (task, result) to the controller.
worker_finish_task(w) ==
    /\ runner = "running"
    /\ workers[w].state = "busy"
    /\ result_queue' = result_queue \cup
                         {<<workers[w].task, import_data(workers[w].task)>>}
    /\ workers' = [workers EXCEPT ![w] = IdleWorker]
    /\ UNCHANGED <<runner, stop_signal, task_queue, but_exec, but_abort,
                   abort_requested, post_run_called, composite,
                   mp_pre_run_called, mp_tasks>>
    /\ AppKept
    /\ FrameKept

\* A worker that was asked to stop abandons its task and exits.
worker_abandon_task(w) ==
    /\ runner = "running"
    /\ stop_signal
    /\ workers[w].state = "busy"
    /\ workers' = [workers EXCEPT ![w] = [state |-> "exited",
                                          task |-> NoIndex]]
    /\ UNCHANGED <<runner, stop_signal, task_queue, result_queue, but_exec,
                   but_abort, abort_requested, post_run_called, composite,
                   mp_pre_run_called, mp_tasks>>
    /\ AppKept
    /\ FrameKept

\* A worker without a task exits when the queue is empty or the runner
\* was asked to stop.
worker_exit(w) ==
    /\ runner = "running"
    /\ workers[w].state = "idle"
    /\ stop_signal \/ Len(task_queue) = 0
    /\ workers' = [workers EXCEPT ![w] = [state |-> "exited",
                                          task |-> NoIndex]]
    /\ UNCHANGED <<runner, stop_signal, task_queue, result_queue, but_exec,
                   but_abort, abort_requested, post_run_called, composite,
                   mp_pre_run_called, mp_tasks>>
    /\ AppKept
    /\ FrameKept

\* The controller takes a (task, result) a worker has sent, in any order,
\* and calls multiprocessing_store_results of the App of the frame.
controller_store_results ==
    /\ runner = "running"
    /\ \E msg \in result_queue :
          /\ result_queue' = result_queue \ {msg}
          /\ composite' = IF slave_mode THEN composite
                          ELSE insert_image(msg[2], msg[1])
    /\ UNCHANGED <<runner, stop_signal, task_queue, workers, but_exec,
                   but_abort, abort_requested, post_run_called,
                   mp_pre_run_called, mp_tasks>>
    /\ AppKept
    /\ FrameKept

\* The runner ends when its workers are gone and their results are
\* stored: it calls multiprocessing_post_run of the App unless it was
\* asked to stop, then it emits finished.
apprunner_end ==
    /\ runner = "running"
    /\ AllWorkersExited
    /\ result_queue = {}
    /\ post_run_called' = ~stop_signal
    /\ runner' = "finished"
    /\ UNCHANGED <<stop_signal, task_queue, workers, result_queue, but_exec,
                   but_abort, abort_requested, composite, mp_pre_run_called,
                   mp_tasks>>
    /\ AppKept
    /\ FrameKept

\* WorkflowRunFrame._apprunner_finished, on the finished signal of the
\* runner: the runner is dropped, _finish_processing resets the buttons.
apprunner_finished ==
    /\ runner = "finished"
    /\ runner' = "none"
    /\ runner_ref' = FALSE
    /\ set_proc_widget_visibility_for_running(FALSE)
    /\ UNCHANGED <<stop_signal, task_queue, workers, result_queue,
                   abort_requested, post_run_called, composite,
                   mp_pre_run_called, mp_tasks>>
    /\ AppKept
    /\ UNCHANGED <<config_source_hash, earlier, box, frame_active,
                   frame_raised>>

\* ------------------------------------------- the ExecuteWorkflowFrame
\* The older frame connects every AppRunner it creates to the same slots
\* and keeps no reference to a runner it has replaced: such a runner goes
\* on with its pool, its results are stored in the App of the frame and
\* its finished signal reaches _apprunner_finished.

\* The AppRunner the frame has started last, as one of the earlier ones.
LastRunner ==
    [state |-> runner, stop_signal |-> stop_signal,
     task_queue |-> task_queue, workers |-> workers,
     result_queue |-> result_queue, post_run_called |-> post_run_called]

\* The sequence seq without its entry i.
Remove(seq, i) ==
    [j \in 1..(Len(seq) - 1) |-> IF j < i THEN seq[j] ELSE seq[j + 1]]

\* What a step of an earlier runner leaves alone.
LastRunnerKept ==
    /\ UNCHANGED <<runner, stop_signal, task_queue, workers, result_queue,
                   but_exec, but_abort, abort_requested, post_run_called,
                   mp_pre_run_called, mp_tasks, config_source_hash,
                   runner_ref, box, frame_active, frame_raised>>
    /\ AppKept

\* ExecuteWorkflowFrame._run_app (lines 138-154): the App's pre_run is
\* called, whatever the tree holds, the buttons are set for a run, a new
\* AppRunner is created, connected and started; self._runner refers to
\* it, and a runner it referred to before goes on without the frame.
ExecuteWorkflowFrame_run_app ==
    /\ composite' = IF slave_mode THEN NoArray
                    ELSE [i \in 0..(NTotal - 1) |-> 0]
    /\ mp_pre_run_called' = TRUE
    /\ mp_tasks' = PyRange(NTotal)
    /\ set_proc_widget_visibility_for_running(TRUE)
    /\ earlier' = IF runner = "none" THEN earlier
                  ELSE Append(earlier, LastRunner)
    /\ runner' = "running"
    /\ runner_ref' = TRUE
    /\ stop_signal' = FALSE
    /\ task_queue' = PyRange(NTotal)
    /\ workers' = [w \in Workers |-> IdleWorker]
    /\ result_queue' = {}
    /\ abort_requested' = FALSE
    /\ post_run_called' = FALSE

\* What the frame leaves alone when it starts no run.
NoRunStarted ==
    UNCHANGED <<composite, mp_pre_run_called, mp_tasks, runner, runner_ref,
                earlier, stop_signal, task_queue, workers, result_queue,
                but_exec, but_abort, abort_requested, post_run_called>>

\* ExecuteWorkflowFrame.__execute, on a click on the execute button, with
\* the Parameter run_type as the user chose it: nothing for the command
\* line; in the GUI _verify_result_shapes_uptodate, which updates the
\* results if their fingerprint is not the one the frame holds and then
\* opens a modal message box (an exception of the update ends the click),
\* and, once it has returned, _run_app.
ExecuteWorkflowFrame_execute(run_type) ==
    /\ but_exec
    /\ box = << >>
    /\ runner # "none" => Len(earlier) < MaxEarlier
    /\ IF run_type = "Command line"
       THEN /\ NoRunStarted
            /\ frame_raised' = "None"
            /\ UNCHANGED <<treeVars, resVars, config_source_hash, box>>
       ELSE IF source_hash(scan_points, node_ids, node) # config_source_hash
       THEN /\ verify_result_shapes_uptodate
            /\ NoRunStarted
            /\ frame_raised' = get_all_result_shapes(FALSE).raised
            /\ box' = IF VerifyRaises THEN << >> ELSE <<"execute">>
       ELSE /\ ExecuteWorkflowFrame_run_app
            /\ frame_raised' = "None"
            /\ UNCHANGED <<treeVars, resVars, config_source_hash, box>>
    /\ frame_active' = frame_active
    /\ AppKept

\* The user closes the message box of _verify_result_shapes_uptodate
\* (lines 126-133): the method returns to its caller, __execute goes on
\* with _run_app, frame_activated sets frame_active.
message_box_closed ==
    /\ box # << >>
    /\ box' = << >>
    /\ IF box = <<"execute">>
       THEN /\ ExecuteWorkflowFrame_run_app
            /\ frame_active' = frame_active
       ELSE /\ NoRunStarted
            /\ frame_active' = TRUE
    /\ UNCHANGED <<config_source_hash, frame_raised>>
    /\ AppKept

\* ExecuteWorkflowFrame.frame_activated(index), this says whether index is
\* the index of the frame: for this frame the results are verified as on
\* a click on execute, and frame_active is set at the end of the method.
frame_activated(this) ==
    /\ box = << >>
    /\ IF this /\ source_hash(scan_points, node_ids, node) # config_source_hash
       THEN /\ verify_result_shapes_uptodate
            /\ frame_raised' = get_all_result_shapes(FALSE).raised
            /\ box' = IF VerifyRaises THEN << >> ELSE <<"activated">>
            /\ frame_active' = frame_active
       ELSE /\ frame_active' = this
            /\ frame_raised' = "None"
            /\ UNCHANGED <<treeVars, resVars, config_source_hash, box>>
    /\ NoRunStarted
    /\ AppKept

\* ExecuteWorkflowFrame.__abort_execution, on a click on the abort button
\* of the older frame: the runner self._runner refers to, if there is
\* one, is sent the stop signal, and __finish_processing resets the
\* buttons at once.
ExecuteWorkflowFrame_abort_execution ==
    /\ but_abort
    /\ box = << >>
    /\ stop_signal' = (stop_signal \/ runner_ref)
    /\ abort_requested' = runner_ref
    /\ set_proc_widget_visibility_for_running(FALSE)
    /\ frame_raised' = "None"
    /\ UNCHANGED <<runner, task_queue, workers, result_queue,
                   post_run_called, composite, mp_pre_run_called, mp_tasks>>
    /\ AppKept
    /\ UNCHANGED <<config_source_hash, runner_ref, earlier, box,
                   frame_active>>

\* ExecuteWorkflowFrame._apprunner_finished (lines 187-196), on the
\* finished signal of the runner i (0 for the one started last): the
\* runner that has emitted the signal is gone; the slot calls exit() on
\* the runner self._runner refers to, which does not end the work of a
\* runner that is still running, drops the reference and resets the
\* buttons; without a reference the call on None raises and the slot
\* ends there.
ExecuteWorkflowFrame_apprunner_finished(i) ==
    /\ IF i = 0
       THEN /\ runner = "finished"
            /\ runner' = "none"
            /\ earlier' = earlier
       ELSE /\ i \in DOMAIN earlier
            /\ earlier[i].state = "finished"
            /\ earlier' = Remove(earlier, i)
            /\ runner' = runner
    /\ IF runner_ref
       THEN /\ runner_ref' = FALSE
            /\ set_proc_widget_visibility_for_running(FALSE)
            /\ frame_raised' = "None"
       ELSE /\ frame_raised' = "AttributeError"
            /\ UNCHANGED <<runner_ref, but_exec, but_abort>>
    /\ UNCHANGED <<stop_signal, task_queue, workers, result_queue,
                   abort_requested, post_run_called, composite,
                   mp_pre_run_called, mp_tasks, config_source_hash, box,
                   frame_active>>
    /\ AppKept

\* A worker of the earlier runner i takes the next task from its queue.
earlier_worker_get_task(i, w) ==
    /\ i \in DOMAIN earlier
    /\ earlier[i].state = "running"
    /\ ~earlier[i].stop_signal
    /\ earlier[i].workers[w].state = "idle"
    /\ Len(earlier[i].task_queue) > 0
    /\ earlier' = [earlier EXCEPT
                     ![i].workers[w] =
                        [state |-> "busy", task |-> Head(earlier[i].task_queue)],
                     ![i].task_queue = Tail(@)]
    /\ composite' = composite
    /\ LastRunnerKept

\* A worker of the earlier runner i finishes its task and sends (task,
\* result).
earlier_worker_finish_task(i, w) ==
    /\ i \in DOMAIN earlier
    /\ earlier[i].state = "running"
    /\ earlier[i].workers[w].state = "busy"
    /\ earlier' = [earlier EXCEPT
                     ![i].result_queue =
                        @ \cup {<<earlier[i].workers[w].task,
                                 import_data(earlier[i].workers[w].task)>>},
                     ![i].workers[w] = IdleWorker]
    /\ composite' = composite
    /\ LastRunnerKept

\* A worker of the earlier runner i leaves: with a task if the runner was
\* asked to stop, without one also when the queue is empty.
earlier_worker_exit(i, w) ==
    /\ i \in DOMAIN earlier
    /\ earlier[i].state = "running"
    /\ \/ earlier[i].workers[w].state = "busy" /\ earlier[i].stop_signal
       \/ /\ earlier[i].workers[w].state = "idle"
          /\ earlier[i].stop_signal \/ Len(earlier[i].task_queue) = 0
    /\ earlier' = [earlier EXCEPT
                     ![i].workers[w] = [state |-> "exited", task |-> NoIndex]]
    /\ composite' = composite
    /\ LastRunnerKept

\* The results signal of the earlier runner i, which line 150 has
\* connected to multiprocessing_store_results of the App of the frame.
earlier_store_results(i) ==
    /\ i \in DOMAIN earlier
    /\ earlier[i].state = "running"
    /\ \E msg \in earlier[i].result_queue :
          /\ earlier' = [earlier EXCEPT ![i].result_queue = @ \ {msg}]
          /\ composite' = IF slave_mode THEN composite
                          ELSE insert_image(msg[2], msg[1])
    /\ LastRunnerKept

\* The earlier runner i ends as every runner does, and emits finished.
earlier_apprunner_end(i) ==
    /\ i \in DOMAIN earlier
    /\ earlier[i].state = "running"
    /\ \A w \in Workers : earlier[i].workers[w].state = "exited"
    /\ earlier[i].result_queue = {}
    /\ earlier' = [earlier EXCEPT
                     ![i].state = "finished",
                     ![i].post_run_called = ~earlier[i].stop_signal]
    /\ composite' = composite
    /\ LastRunnerKept

\* WorkflowRunFrame(), made when the tree was still empty: no runner; the
\* execute button is enabled; the frame holds the fingerprint of the
\* results as it was then.
RunFrameConstructed ==
    /\ config_source_hash = source_hash(scan_points, << >>, << >>)
    /\ runner_ref = FALSE
    /\ earlier = << >>
    /\ box = << >>
    /\ frame_active = TRUE
    /\ frame_raised = "None"
    /\ runner = "none"
    /\ stop_signal = FALSE
    /\ task_queue = << >>
    /\ workers = [w \in Workers |-> [state |-> "exited", task |-> NoIndex]]
    /\ result_queue = {}
    /\ but_exec = TRUE
    /\ but_abort = FALSE
    /\ abort_requested = FALSE
    /\ post_run_called = FALSE

\* ------------------------------------------------- the FilelistManager
\* The names of the files in the directory of the first file, as
\* sorted(os.listdir(_path1)) gives them.
DirNames == 0..(MaxDir - 1)

\* Path(os.path.join(_path1, f)): the entry of the file list for name f.
Path(f) == [path |-> "path1", name |-> f]

\* _list[_i1:_i2+1:step] of the sorted directory listing, and
\* range(_index1, _index2 + 1) with step 1.
Slice(i1, i2, step) ==
    IF i2 < i1 THEN << >>
    ELSE [k \in 1..((i2 - i1) \div step + 1) |-> i1 + (k - 1) * step]

\* None where a Path may stand.
NoPath == [path |-> "None", name |-> NoIndex]

\* No get_filename call was made.
NoFilename == [index |-> NoIndex, raised |-> "no call", returned |-> NoPath]

\* FilelistManager.__init__: an empty file list, n_files is None.
FilelistManagerConstructed ==
    /\ fm_config = [file_list |-> << >>, n_files |-> NoIndex]
    /\ filename_call = NoFilename

\* ------------------------------------- the controller's App and its copy
\* No App of a worker exists.
NoApp == [exists |-> FALSE, slave_mode |-> FALSE, composite_none |-> FALSE,
          image |-> NoObject, use_thresholds |-> FALSE, n_calls |-> 0,
          last |-> "none", raised |-> "None", n_files_set |-> FALSE,
          image_shape_set |-> FALSE]

\* CompositeCreatorApp.__init__ of the controller: a CompositeImage whose
\* __image is None (its image_shape is not set, so that __init__ creates
\* no array); Parameter use_thresholds as the user chose it; a
\* FilelistManager whose n_files is None.  image_shape_set is the
\* Parameter image_shape of the composite of the App.
ControllerAppConstructed ==
    /\ arrays = << >>
    /\ ctrl_app \in [image : {NoObject}, use_thresholds : BOOLEAN,
                     raised : {"None"}, image_shape_set : {FALSE},
                     n_files_set : {FALSE}]
    /\ wrk_app = NoApp

\* ------------------------------------------------------ the FIO importer
\* Largest number of scan command lines of a file.
MaxCommands == 2

\* The scan commands the importer looks for; every command line names the
\* motor ScanMotor and is well formed (numbers where the importer parses
\* numbers, at least one interval).
CommandKinds == {"ascan", "dscan"}

ScanMotor == "x"

\* The command lines of a file, in their order.
CommandLines == UNION {[1..n -> CommandKinds] : n \in 0..MaxCommands}

\* A line "name = pos" of the parameter section of a file.
MotorLine(name, pos) == [name |-> name, pos |-> pos]

\* The parameter sections of the files: the lines with "=" and without
\* "nan", in their order (none if the section has no line breaks, as in
\* test_import_from_multiple_files__multiple_motors_moved).
MotorLines ==
    {<< >>,
     <<MotorLine("x", 0)>>,
     <<MotorLine("y", 0)>>,
     <<MotorLine("x", 0), MotorLine("y", 0)>>,
     <<MotorLine("x", 0), MotorLine("y", 1)>>,
     <<MotorLine("x", 1), MotorLine("y", 0)>>}

\* A FIO file as the importer reads it: whether it can be opened, its scan
\* command lines, whether one of its last five lines has a number as its
\* second blank-separated entry (tail), the number of parents of its path
\* (one for "test.fio" or "/test.fio", two for "dir/test.fio") and its
\* motor lines.
FioFiles ==
    [exists   : BOOLEAN,
     commands : CommandLines,
     tail     : BOOLEAN,
     parents  : 1..2,
     motors   : MotorLines]

\* A file name without a file.
MissingFile ==
    [exists |-> FALSE, commands |-> << >>, tail |-> FALSE, parents |-> 2,
     motors |-> << >>]

\* The tail of a file is told apart where a dscan line makes the importer
\* read it.
TailRead(f) == f.tail => \E i \in DOMAIN f.commands : f.commands[i] = "dscan"

\* The files given to import_single_fio, which does not read the motor
\* lines.
SingleFiles ==
    {MissingFile} \cup
    {f \in FioFiles : f.exists /\ TailRead(f) /\ f.motors = << >>}

\* The first file given to import_multiple_fio, which does not take the
\* parents of a path.
FirstFiles ==
    {MissingFile} \cup {f \in FioFiles : f.exists /\ TailRead(f) /\ f.parents = 2}

\* The later files given to import_multiple_fio, of which it reads the
\* motor lines only.
LaterFiles ==
    {MissingFile} \cup
    {f \in FioFiles : f.exists /\ f.commands = << >> /\ ~f.tail /\ f.parents = 2}

\* The entries of imported_params that a scan command line sets.
Dim0Keys ==
    {"scan_dim0_delta", "scan_dim0_n_points", "scan_dim0_offset",
     "scan_dim0_label"}

\* The entries _get_1d_default_values adds.
DefaultKeys ==
    {"scan_dim", "scan_title", "scan_dim0_unit", "scan_start_index",
     "scan_index_stepping", "scan_multiplicity",
     "scan_multi_image_handling", "scan_name_pattern",
     "scan_base_directory"}

\* The entries of imported_params when a single file was read, with
\* _get_1d_default_values, before they are written to the scan.
ImportedKeys == Dim0Keys \cup DefaultKeys

\* No import_from_file call was made.
NoImport == [filenames |-> << >>, raised |-> "no call"]

\* The class attribute imported_params is empty when the module is loaded.
ScanIoFioLoaded ==
    /\ imported_params = {}
    /\ fio_call = NoImport

\* _write_to_scan_settings of the base class of the importers, with the
\* imported entries params: every entry is written to the scan, and
\* imported_params is emptied; what is left of it.
write_to_scan_settings(params) == params \ params

\* ScanIoFio.import_single_fio(filename): what it raises and what
\* imported_params holds afterwards.  imported_params is emptied before
\* the file is opened.  The lines are read in their order: a dscan line
\* takes end_scan from the tail of the file and, with no number there,
\* uses the unbound name; a second command line empties imported_params
\* again and raises; a file without command line raises.  The entries of
\* the one command are then kept while _get_1d_default_values takes the
\* second parent of the path, and are written to the scan.
import_single_fio(file) ==
    IF ~file.exists
    THEN [raised |-> "FileNotFoundError", imported_params |-> {}]
    ELSE IF Len(file.commands) = 0
    THEN [raised |-> "UserConfigError", imported_params |-> {}]
    ELSE IF file.commands[1] = "dscan" /\ ~file.tail
    THEN [raised |-> "UnboundLocalError", imported_params |-> {}]
    ELSE IF Len(file.commands) > 1
    THEN [raised |-> "UserConfigError", imported_params |-> {}]
    ELSE IF file.parents < 2
    THEN [raised |-> "IndexError", imported_params |-> Dim0Keys]
    ELSE [raised |-> "None",
          imported_params |-> write_to_scan_settings(ImportedKeys)]

\* arr_motor_names of import_multiple_fio, with room for the motor lines
\* of the first file: every file writes the names of its motor lines over
\* those of the files before.
arr_motor_names(filenames) ==
    [i \in 1..Len(filenames[1].motors) |->
        LET last == CHOOSE k \in DOMAIN filenames :
                       /\ Len(filenames[k].motors) >= i
                       /\ \A l \in DOMAIN filenames :
                             Len(filenames[l].motors) >= i => l <= k
        IN  filenames[last].motors[i].name]

\* arr_motor_pos of import_multiple_fio: a row per motor line of the first
\* file and a column per file, one where a file has no such line.
arr_motor_pos(filenames) ==
    [i \in 1..Len(filenames[1].motors) |->
        [k \in DOMAIN filenames |->
            IF Len(filenames[k].motors) >= i
            THEN filenames[k].motors[i].pos ELSE 1]]

\* motors_moved_ind of import_multiple_fio: of the rows with different
\* positions in two files in succession, the first two.
motors_moved_ind(filenames) ==
    LET pos == arr_motor_pos(filenames)
        moved == {i \in DOMAIN pos :
                     \E k \in 1..(Len(filenames) - 1) : pos[i][k] # pos[i][k + 1]}
    IN  {i \in moved : Cardinality({j \in moved : j < i}) < 2}

\* ScanIoFio.import_multiple_fio(filenames) with imported_params as they
\* are (params): the first file is opened and its command lines read in
\* their order, each one replacing the values of the one before (a dscan
\* line with no number in the tail and no ascan line before it uses the
\* unbound end_scan; with no command line the values written to the scan
\* are unbound); every file is opened and its motor lines read (a file
\* with more of them than the first one has no room); the scanned motor
\* is looked up in the names and taken from the moved motors, and the
\* first one that is left is used.  imported_params is not assigned.
import_multiple_fio(filenames, params) ==
    LET first == filenames[1]
        bad == {k \in DOMAIN filenames :
                   \/ ~filenames[k].exists
                   \/ Len(filenames[k].motors) > Len(first.motors)}
        k0 == CHOOSE k \in bad : \A l \in bad : k <= l
        names == arr_motor_names(filenames)
        scan_motor_index ==
            CHOOSE i \in DOMAIN names :
               names[i] = ScanMotor /\ \A j \in 1..(i - 1) : names[j] # ScanMotor
        raised ==
            IF Len(filenames) = 0 THEN "IndexError"
            ELSE IF ~first.exists THEN "FileNotFoundError"
            ELSE IF Len(first.commands) = 0 THEN "UnboundLocalError"
            ELSE IF first.commands[1] = "dscan" /\ ~first.tail
            THEN "UnboundLocalError"
            ELSE IF bad # {}
            THEN IF ~filenames[k0].exists THEN "FileNotFoundError"
                 ELSE "IndexError"
            ELSE IF ScanMotor \notin Range(names) THEN "ValueError"
            ELSE IF motors_moved_ind(filenames) \ {scan_motor_index} = {}
            THEN "IndexError"
            ELSE "None"
    IN  [raised |-> raised, imported_params |-> params]

\* ScanIoFio.import_from_file(*filenames).
import_from_file(filenames) ==
    /\ LET r == IF Len(filenames) = 1
                THEN import_single_fio(filenames[1])
                ELSE import_multiple_fio(filenames, imported_params)
       IN  /\ imported_params' = r.imported_params
           /\ fio_call' = [filenames |-> filenames, raised |-> r.raised]
    /\ UNCHANGED <<fm_config, filename_call, arrays, ctrl_app, wrk_app, grid,
                   tiles>>

\* A caller assigns ScanIoFio.imported_params = {"test_entry": True}.
assign_imported_params ==
    /\ imported_params' = {"test_entry"}
    /\ UNCHANGED <<fio_call, fm_config, filename_call, arrays, ctrl_app,
                   wrk_app, grid, tiles>>

\* ------------------------------------------- the grid of the composite
\* Largest number of tiles per direction a user asks for.
MaxGrid == 3

\* The user's values of composite_nx and composite_ny: -1 for "as many as
\* needed", or a number.
GridSizes == {-1} \cup 0..MaxGrid

\* Number of times the user changes a Parameter of the grid, and the
\* largest number of images of a composite.
MaxGridEdits == 1
MaxGridImages == 4

\* No tile was written.
NoTiles == << >>

\* No call was made on the grid.
NoGridCall == [op |-> "none", index |-> NoIndex, tile |-> << >>,
               raised |-> "None"]

\* A CompositeCreatorApp with Parameters as the user set them and files
\* selected; prepare_run was not called, and the composite has no array
\* (array is the shape of the array in tiles, (ny, nx)).
GridConstructed ==
    /\ grid \in [composite_nx : GridSizes, composite_ny : GridSizes,
                 composite_dir : {"x", "y"},
                 n_total : 1..MaxGridImages,
                 prepared : {"not run"}, array : {NoShape},
                 n_edits : {0}, last : {NoGridCall}]
    /\ tiles = NoTiles

\* int(np.ceil(a / b)) for a > 0 and b # 0.
CeilDiv(a, b) ==
    IF b > 0 THEN (a + b - 1) \div b ELSE -(a \div (-b))

\* __verify_number_of_images_fits_composite on the Parameters g: values of
\* -1 are replaced, then the grid must hold all images and none of its
\* rows or columns may be spare.
verify_number_of_images_fits_composite(g) ==
    IF g.composite_nx = -1 /\ g.composite_ny = 0
    THEN [g EXCEPT !.prepared = "ZeroDivisionError"]
    ELSE LET nx == IF g.composite_nx = -1
                   THEN CeilDiv(g.n_total, g.composite_ny)
                   ELSE g.composite_nx
             g1 == [g EXCEPT !.composite_nx = nx]
         IN  IF g.composite_ny = -1 /\ nx = 0
             THEN [g1 EXCEPT !.prepared = "ZeroDivisionError"]
             ELSE LET ny == IF g.composite_ny = -1
                            THEN CeilDiv(g.n_total, nx)
                            ELSE g.composite_ny
                      g2 == [g1 EXCEPT !.composite_ny = ny]
                  IN  IF nx * ny < g.n_total
                      THEN [g2 EXCEPT !.prepared = "UserConfigError"]
                      ELSE IF \/ (nx - 1) * ny >= g.n_total
                              \/ nx * (ny - 1) >= g.n_total
                      THEN [g2 EXCEPT !.prepared = "UserConfigError"]
                      ELSE [g2 EXCEPT !.prepared = "None"]

\* CompositeCreatorApp.prepare_run as far as the grid goes: the check of
\* the grid, and, when it did not raise, a new image of ny x nx tiles;
\* after a check that raised the composite keeps the array and the images
\* it has.
prepare_run ==
    /\ LET g == verify_number_of_images_fits_composite(grid)
       IN  grid' = [g EXCEPT
                      !.array = IF g.prepared = "None"
                                THEN <<g.composite_ny, g.composite_nx>>
                                ELSE grid.array,
                      !.last = [NoGridCall EXCEPT !.op = "prepare_run",
                                                  !.raised = g.prepared]]
    /\ tiles' = IF grid'.prepared = "None" THEN NoTiles ELSE tiles
    /\ UNCHANGED <<fm_config, filename_call, arrays, ctrl_app, wrk_app,
                   imported_params, fio_call>>

\* set_param_value of composite_nx, composite_ny or composite_dir: the
\* user gives the grid another value; no prepare_run has run with it, the
\* array of the composite is as it was.
grid_set_param_value(key, value) ==
    /\ grid[key] # value
    /\ grid.n_edits < MaxGridEdits
    /\ grid' = [grid EXCEPT ![key] = value, !.prepared = "not run",
                            !.n_edits = @ + 1,
                            !.last = [NoGridCall EXCEPT !.op = "set_param"]]
    /\ UNCHANGED <<tiles, fm_config, filename_call, arrays, ctrl_app,
                   wrk_app, imported_params, fio_call>>

\* a // b of Python for a >= 0 and b # 0: the quotient rounded down.
FloorDiv(a, b) ==
    IF b > 0 THEN a \div b ELSE 0 - ((a + (0 - b) - 1) \div (0 - b))

\* a % b of Python for a >= 0 and b # 0: the sign of b.
Modulo(a, b) == a - b * FloorDiv(a, b)

\* A tile counted with the length of the other direction of the grid.
insert_image_tile_other_length(g, index) ==
    IF g.composite_dir = "x"
    THEN [iy |-> FloorDiv(index, g.composite_ny),
          ix |-> Modulo(index, g.composite_ny)]
    ELSE [iy |-> Modulo(index, g.composite_nx),
          ix |-> FloorDiv(index, g.composite_nx)]

\* CompositeImage.insert_image(image, index): the tile (_iy, _ix) the image
\* is written to, with the Parameters as they are at the call.
insert_image_tile(g, index) ==
    IF g.composite_dir = "x"
    THEN [iy |-> FloorDiv(index, g.composite_nx),
          ix |-> Modulo(index, g.composite_nx)]
    ELSE [iy |-> Modulo(index, g.composite_ny),
          ix |-> FloorDiv(index, g.composite_ny)]

\* The row (or column) slice(t, t + 1) selects on an axis of n tiles, for
\* images of one pixel; NoIndex for an empty selection: a t beyond the
\* axis selects nothing, a negative t counts from the end of the axis.
SliceTile(n, t) ==
    IF t >= 0 THEN (IF t < n THEN t ELSE NoIndex)
    ELSE IF t = -1 THEN NoIndex
    ELSE IF n + t >= 0 THEN n + t ELSE NoIndex

\* CompositeImage.insert_image(image, index) on the composite of the grid
\* g whose array holds the images t (by tile, the index of the image it
\* holds): without an array __create_image_array raises, as no
\* prepare_run has set the shape of the images; the tile is counted with
\* the Parameters of the call, and the assignment to the slices of the
\* array writes the image, over the image the tile held, or nothing if
\* the slices select no tile of the array.
grid_insert_image(g, t, index) ==
    IF g.array = NoShape
    THEN [raised |-> "ValueError", tile |-> << >>, tiles |-> t]
    ELSE IF (IF g.composite_dir = "x" THEN g.composite_nx
             ELSE g.composite_ny) = 0
    THEN [raised |-> "ZeroDivisionError", tile |-> << >>, tiles |-> t]
    ELSE LET tile == insert_image_tile(g, index)
             cy == SliceTile(g.array[1], tile.iy)
             cx == SliceTile(g.array[2], tile.ix)
         IN  [raised |-> "None", tile |-> <<tile.iy, tile.ix>>,
              tiles |-> IF cy = NoIndex \/ cx = NoIndex THEN t
                        ELSE [c \in DOMAIN t \cup {<<cy, cx>>} |->
                                IF c = <<cy, cx>> THEN index ELSE t[c]]]

\* multiprocessing_store_results(index, image) of an App that is not in
\* slave mode and uses no background file: insert_image.
store_image(index) ==
    /\ LET r == grid_insert_image(grid, tiles, index)
       IN  /\ grid' = [grid EXCEPT !.last = [op |-> "store", index |-> index,
                                             tile |-> r.tile,
                                             raised |-> r.raised]]
           /\ tiles' = r.tiles
    /\ UNCHANGED <<fm_config, filename_call, arrays, ctrl_app, wrk_app,
                   imported_params, fio_call>>

UtilConstructed ==
    /\ FilelistManagerConstructed
    /\ ControllerAppConstructed /\ ~ctrl_app.use_thresholds
    /\ ScanIoFioLoaded
    /\ grid = [composite_nx |-> 1, composite_ny |-> 1, composite_dir |-> "x",
               n_total |-> 1, prepared |-> "not run", array |-> NoShape,
               n_edits |-> 0, last |-> NoGridCall]
    /\ tiles = NoTiles

\* np.zeros((_ny, _nx)): a new composite array, by image index.
new_image == [i \in 0..(MaxTiles - 1) |-> 0]

\* The upper threshold the composite is clamped to.
threshold_high == 1

\* CompositeImage.apply_thresholds on an array: in place.
apply_thresholds(a) ==
    [i \in DOMAIN a |-> IF a[i] > threshold_high THEN threshold_high ELSE a[i]]

\* CompositeCreatorApp.apply_thresholds(**kwargs) of an App with the
\* composite array image (or none), on the arrays arr; given says that the
\* caller passes high=threshold_high.  Nothing is done without the
\* keyword when use_thresholds is not set; else the array of the composite
\* is clamped in place, and without an array the comparison of None
\* raises.
App_apply_thresholds(app, arr, given) ==
    IF ~(app.use_thresholds \/ given)
    THEN [raised |-> "None", arrays |-> arr]
    ELSE IF app.image = NoObject
    THEN [raised |-> "TypeError", arrays |-> arr]
    ELSE [raised |-> "None",
          arrays |-> [arr EXCEPT ![app.image] = apply_thresholds(@)]]

\* The two Apps c and w after a call that left the arrays arr: an array
\* that no composite holds any more is gone, and the arrays that are left
\* are numbered in their order.
AppsAfter(arr, c, w) ==
    LET held == {c.image, w.image} \ {NoObject}
        rank(a) == Cardinality({b \in held : b <= a})
        number(a) == IF a = NoObject THEN NoObject ELSE rank(a)
    IN  /\ arrays' = [k \in 1..Cardinality(held) |->
                         arr[CHOOSE a \in held : rank(a) = k]]
        /\ ctrl_app' = [c EXCEPT !.image = number(c.image)]
        /\ wrk_app' = [w EXCEPT !.image = number(w.image)]

\* The controller's multiprocessing_pre_run: prepare_run builds the file
\* list, sets the shape of the images in the Parameters of the composite
\* and create_new_image makes a new array.
ctrl_pre_run ==
    /\ AppsAfter(Append(arrays, new_image),
                 [ctrl_app EXCEPT !.image = Len(arrays) + 1,
                                  !.raised = "None",
                                  !.image_shape_set = TRUE,
                                  !.n_files_set = TRUE],
                 wrk_app)
    /\ UNCHANGED <<fm_config, filename_call, imported_params, fio_call,
                   grid, tiles>>

\* CompositeImage.insert_image(image, index) of a composite that holds the
\* array image (or none), on the arrays arr: without an array one is to be
\* created first, and __verify_config raises ValueError as long as no
\* prepare_run has set the shape of the images (configured); then the
\* image is written into the array.
composite_insert_image(image, configured, arr, index) ==
    IF image = NoObject /\ ~configured
    THEN [raised |-> "ValueError", image |-> image, arrays |-> arr]
    ELSE LET a == IF image = NoObject THEN Len(arr) + 1 ELSE image
             arr1 == IF image = NoObject THEN Append(arr, new_image) ELSE arr
         IN  [raised |-> "None", image |-> a,
              arrays |-> [arr1 EXCEPT ![a][index] = import_data(index)]]

\* The controller's multiprocessing_store_results(index, image):
\* insert_image of its composite.
ctrl_store_results(index) ==
    /\ LET r == composite_insert_image(ctrl_app.image,
                    ctrl_app.image_shape_set, arrays, index)
       IN  AppsAfter(r.arrays,
                     [ctrl_app EXCEPT !.image = r.image, !.raised = r.raised],
                     wrk_app)
    /\ UNCHANGED <<fm_config, filename_call, imported_params, fio_call,
                   grid, tiles>>

\* The controller's multiprocessing_post_run: apply_thresholds() if
\* use_thresholds is set (the controller is not in slave mode).
ctrl_post_run ==
    LET r == App_apply_thresholds(ctrl_app, arrays, FALSE)
    IN  /\ AppsAfter(r.arrays, [ctrl_app EXCEPT !.raised = r.raised],
                     wrk_app)
        /\ UNCHANGED <<fm_config, filename_call, imported_params, fio_call,
                       grid, tiles>>

\* apply_thresholds(**kwargs) called on the controller's App.
ctrl_apply_thresholds(given) ==
    LET r == App_apply_thresholds(ctrl_app, arrays, given)
    IN  /\ AppsAfter(r.arrays, [ctrl_app EXCEPT !.raised = r.raised],
                     wrk_app)
        /\ UNCHANGED <<fm_config, filename_call, imported_params, fio_call,
                       grid, tiles>>

\* A copy of the composite that holds the array of the original.
copy_composite_sharing_image(image) ==
    [image |-> image, arrays |-> arrays]

\* The composite of a copy of the App whose composite holds the array
\* image (or none): the copy of the App is constructed independently and
\* without the accumulated result buffers, so that its composite holds no
\* array (CompositeCreatorApp names _composite in
\* attributes_not_to_copy_to_slave_app).
copy_composite(image) ==
    [image |-> NoObject, arrays |-> arrays]

\* BaseApp.copy() of the controller's App for a worker: a new App with
\* the configuration of the original by value (slave_mode, the Parameters
\* of the App and of its composite, the file list) and a composite of its
\* own.
App_copy ==
    /\ ~wrk_app.exists
    /\ LET c == copy_composite(ctrl_app.image)
       IN  AppsAfter(c.arrays, ctrl_app,
                     [exists |-> TRUE, slave_mode |-> FALSE,
                      composite_none |-> FALSE, image |-> c.image,
                      use_thresholds |-> ctrl_app.use_thresholds,
                      n_calls |-> 0, last |-> "copy",
                      raised |-> "None",
                      n_files_set |-> ctrl_app.n_files_set,
                      image_shape_set |-> ctrl_app.image_shape_set])
    /\ UNCHANGED <<fm_config, filename_call, imported_params, fio_call,
                   grid, tiles>>

\* app.slave_mode = True: the process of the worker puts its App in slave
\* mode.
set_slave_mode ==
    /\ wrk_app.exists /\ ~wrk_app.slave_mode
    /\ wrk_app' = [wrk_app EXCEPT !.slave_mode = TRUE, !.last = "slave_mode",
                                  !.raised = "None"]
    /\ UNCHANGED <<arrays, ctrl_app, fm_config, filename_call,
                   imported_params, fio_call, grid, tiles>>

\* A life cycle call on the App of the worker is counted.
WorkerCalled(w, op) ==
    [w EXCEPT !.n_calls = w.n_calls + 1, !.last = op, !.raised = "None"]

\* multiprocessing_pre_run on the App of the worker: prepare_run builds
\* the file list of the worker's App, then drops the composite in slave
\* mode; otherwise it sets the shape of the images in the Parameters of
\* its composite and creates a new image.
worker_pre_run ==
    /\ wrk_app.exists /\ wrk_app.n_calls < MaxWorkerCalls
    /\ IF wrk_app.slave_mode
       THEN AppsAfter(arrays, ctrl_app,
                      [WorkerCalled(wrk_app, "pre_run")
                          EXCEPT !.composite_none = TRUE,
                                 !.image = NoObject,
                                 !.n_files_set = TRUE])
       ELSE AppsAfter(Append(arrays, new_image), ctrl_app,
                      [WorkerCalled(wrk_app, "pre_run")
                          EXCEPT !.image = Len(arrays) + 1,
                                 !.n_files_set = TRUE,
                                 !.image_shape_set = TRUE])
    /\ UNCHANGED <<fm_config, filename_call, imported_params, fio_call,
                   grid, tiles>>

\* multiprocessing_pre_cycle, multiprocessing_carryon and
\* multiprocessing_func on the App of the worker: no composite is used.
\* pre_cycle asks the file list for the name of the file, and
\* get_filename raises AppConfigError while n_files is None.
worker_cycle(op) ==
    /\ wrk_app.exists /\ wrk_app.n_calls < MaxWorkerCalls
    /\ wrk_app' = IF op = "pre_cycle" /\ ~wrk_app.n_files_set
                  THEN [WorkerCalled(wrk_app, op)
                           EXCEPT !.raised = "AppConfigError"]
                  ELSE WorkerCalled(wrk_app, op)
    /\ UNCHANGED <<arrays, ctrl_app, fm_config, filename_call,
                   imported_params, fio_call, grid, tiles>>

\* multiprocessing_store_results(index, image) on the App of the worker:
\* returns at once in slave mode; else insert_image of its composite.
worker_store_results(index) ==
    /\ wrk_app.exists /\ wrk_app.n_calls < MaxWorkerCalls
    /\ IF wrk_app.slave_mode
       THEN AppsAfter(arrays, ctrl_app,
                      WorkerCalled(wrk_app, "store_results"))
       ELSE LET r == composite_insert_image(wrk_app.image,
                         wrk_app.image_shape_set, arrays, index)
            IN  AppsAfter(r.arrays, ctrl_app,
                          [WorkerCalled(wrk_app, "store_results")
                              EXCEPT !.image = r.image,
                                     !.raised = r.raised])
    /\ UNCHANGED <<fm_config, filename_call, imported_params, fio_call,
                   grid, tiles>>

\* multiprocessing_post_run on the App of the worker: apply_thresholds()
\* if use_thresholds is set and the App is not in slave mode.
worker_post_run ==
    /\ wrk_app.exists /\ wrk_app.n_calls < MaxWorkerCalls
    /\ LET r == IF wrk_app.slave_mode
                THEN [raised |-> "None", arrays |-> arrays]
                ELSE App_apply_thresholds(wrk_app, arrays, FALSE)
       IN  AppsAfter(r.arrays, ctrl_app,
                     [WorkerCalled(wrk_app, "post_run")
                         EXCEPT !.raised = r.raised])
    /\ UNCHANGED <<fm_config, filename_call, imported_params, fio_call,
                   grid, tiles>>

\* apply_thresholds(**kwargs) called on the App of the worker; after a
\* pre_run in slave mode the App has no composite, and the call on None
\* raises.
worker_apply_thresholds(given) ==
    /\ wrk_app.exists
    /\ LET r == IF wrk_app.composite_none
                   /\ (wrk_app.use_thresholds \/ given)
                THEN [raised |-> "AttributeError", arrays |-> arrays]
                ELSE App_apply_thresholds(wrk_app, arrays, given)
       IN  AppsAfter(r.arrays, ctrl_app,
                     [wrk_app EXCEPT !.last = "apply_thresholds",
                                     !.raised = r.raised])
    /\ UNCHANGED <<fm_config, filename_call, imported_params, fio_call,
                   grid, tiles>>

\* FilelistManager.update(first_file, last_file, live_processing,
\* file_stepping) with an existing first file; last_file is a name or empty
\* (NoIndex). The naming scheme of live processing raises when the two
\* names do not differ.
update(first_file, last_file, live, file_stepping) ==
    /\ fm_config' =
         IF last_file = NoIndex
         THEN [file_list |-> << Path(first_file) >>, n_files |-> 1]
         ELSE IF live
         THEN IF first_file = last_file
              THEN fm_config
              ELSE LET range == Slice(first_file, last_file, 1)
                   IN  [file_list |-> [k \in DOMAIN range |-> Path(range[k])],
                        n_files |-> Len(range)]
         ELSE LET list == Slice(first_file, last_file, file_stepping)
              IN  [file_list |-> [k \in DOMAIN list |-> Path(list[k])],
                   n_files |-> Len(list)]
    /\ UNCHANGED <<filename_call, arrays, ctrl_app, wrk_app, imported_params,
                   fio_call, grid, tiles>>

\* A get_filename that indexes the list as Python does, also from the end.
get_filename_from_the_end(config, index) ==
    IF config.n_files = NoIndex
    THEN [raised |-> "AppConfigError", returned |-> NoPath]
    ELSE IF ~(-config.n_files <= index /\ index < config.n_files)
    THEN [raised |-> "AppConfigError", returned |-> NoPath]
    ELSE [raised |-> "None",
          returned |-> config.file_list[(index % config.n_files) + 1]]

\* FilelistManager.get_filename(index) on the _config given.
get_filename(config, index) ==
    IF config.n_files = NoIndex
    THEN [raised |-> "AppConfigError", returned |-> NoPath]
    ELSE IF ~(0 <= index /\ index < config.n_files)
    THEN [raised |-> "AppConfigError", returned |-> NoPath]
    ELSE [raised |-> "None", returned |-> config.file_list[index + 1]]

\* The call get_filename(index).
call_get_filename(index) ==
    /\ filename_call' = [index |-> index] @@ get_filename(fm_config, index)
    /\ UNCHANGED <<fm_config, arrays, ctrl_app, wrk_app, imported_params,
                   fio_call, grid, tiles>>

\* A WorkflowTree with one node, its root.
TreeWithRoot ==
    /\ node_ids = <<0>>
    /\ nodes = (0 :> 1)
    /\ root = 1
    /\ node = << [node_id |-> 0, parent |-> NoNode, children |-> << >>,
                  plugin |-> "loader", results |-> NoObject,
                  result_kws |-> NoObject, result_shape |-> NoShape,
                  pre_executed |-> FALSE, executed |-> FALSE] >>
    /\ tree_changed = TRUE
    /\ heap = << >>
    /\ caller_arg = NoObject
    /\ caller_kwargs = NoObject
    /\ n_runs = 0
    /\ exec_raised = FALSE
    /\ tree_results = << >>
    /\ shapes_last = NoShapesCall
    /\ insert_call = NoInsert
    /\ single_call = NoSingle

TreeInit ==
    /\ TreeConstructed
    /\ pc = "idle"
    /\ AppConstructed
    /\ ~slave_mode /\ ~live_processing /\ bad_frames = {}
    /\ images_per_file = 1 /\ n_files = 1
    /\ ResultsConstructed /\ scan_points = <<1>> /\ variant = "full"
    /\ RunFrameConstructed /\ UtilConstructed

TreeNext ==
    \/ \E kind \in PluginKinds, parent \in {NoNode} \cup DOMAIN node :
          create_and_add_node(kind, parent, NoIndex)
          /\ UNCHANGED <<utilVars, appVars, resVars, runVars>>
    \/ \E x \in {1, MaxArg} :
          execute_process_and_get_results(x) /\ UNCHANGED <<utilVars, appVars, resVars, runVars>>
    \/ prepare_execution /\ UNCHANGED <<utilVars, appVars, resVars, runVars>>
    \/ \E node_id \in 0..MaxNodes, x \in {MaxArg} :
          execute_single_plugin(node_id, x)
          /\ UNCHANGED <<utilVars, appVars, resVars, runVars>>

SpecTree == TreeInit /\ [][TreeNext]_vars

Init ==
    /\ pc = "pre_run"
    /\ AppConstructed
    /\ TreeConstructed
    /\ ResultsConstructed /\ scan_points = <<1>> /\ variant = "full"
    /\ RunFrameConstructed /\ UtilConstructed

Next ==
    \/ run /\ UNCHANGED <<utilVars, treeVars, resVars, runVars>>
    \/ \E f \in Files : FileWritten(f) /\ UNCHANGED <<utilVars, treeVars, resVars, runVars>>

Spec == Init /\ [][Next]_vars

\* ------------------------------------------- the file wait, called directly
\* Another timeout a caller may choose, longer than one sleep.
LongTimeout == 25

Timeouts == {NoTimeout, 0, CarryonTimeout, LongTimeout}

\* _image_exists_check(fname, timeout=t), called on an App whose file list
\* is built.
image_exists_check(fname, t) ==
    /\ pc = "idle"
    /\ fname < n_files
    /\ caller' = "direct"
    /\ current_fname' = fname
    /\ image_exists_check_enter(fname, t)
    /\ UNCHANGED <<utilVars, slave_mode, live_processing, images_per_file, n_files,
                   filesize, file_exists, file_size, bad_frames,
                   mp_pre_run_called, mp_tasks, tasks, results, composite,
                   calls, error>>

CheckInit ==
    /\ pc = "idle"
    /\ AppConstructed
    /\ live_processing
    /\ ~slave_mode
    /\ bad_frames = {}
    /\ TreeConstructed
    /\ ResultsConstructed /\ scan_points = <<1>> /\ variant = "full"
    /\ RunFrameConstructed /\ UtilConstructed

CheckNext ==
    \/ \E f \in Files, t \in Timeouts :
          image_exists_check(f, t) /\ UNCHANGED <<utilVars, treeVars, resVars, runVars>>
    \/ image_exists_check_loop /\ UNCHANGED <<utilVars, treeVars, resVars, runVars>>
    \/ image_exists_check_sleep /\ UNCHANGED <<utilVars, treeVars, resVars, runVars>>
    \/ \E f \in Files : FileWritten(f) /\ UNCHANGED <<utilVars, treeVars, resVars, runVars>>

SpecCheck == CheckInit /\ [][CheckNext]_vars

\* ------------------------------------- the aggregator, called directly
\* An App that is not running.
Idle ==
    /\ pc = "idle"
    /\ AppConstructed
    /\ ~slave_mode /\ ~live_processing /\ bad_frames = {}
    /\ images_per_file = 1 /\ n_files = 1
    /\ UtilConstructed

\* A caller of update_shapes_from_scan and of store_results with frame
\* indices in and just outside of the scan.
StoreInit ==
    /\ Idle /\ TreeOfTest
    /\ ResultsConstructed /\ variant = "full"
    /\ RunFrameConstructed

StoreNext ==
    \/ update_shapes_from_scan /\ UNCHANGED <<utilVars, appVars, runVars>>
    \/ \E index \in 0..n_total(scan_points), results_dict \in ResultDicts :
          store_any(index, results_dict) /\ UNCHANGED <<utilVars, appVars, treeVars, runVars>>

SpecStore == StoreInit /\ [][StoreNext]_vars

\* A run: the composites are allocated before the first frame, then the
\* results of every frame are stored once, in the order of their arrival.
DeliverInit ==
    /\ Idle /\ TreeOfTest
    /\ ResultsConstructed
    /\ RunFrameConstructed

DeliverNext ==
    \/ n_stores = 0 /\ update_shapes_from_scan
          /\ UNCHANGED <<utilVars, appVars, runVars>>
    \/ \E t \in pending : deliver(t) /\ UNCHANGED <<utilVars, appVars, treeVars, runVars>>

SpecDeliver == DeliverInit /\ [][DeliverNext]_vars

\* ------------------------------------ the shapes of a tree being built
\* A tree is built node by node; in between its result shapes are asked
\* for and the composites are allocated for the scan.
ShapesInit ==
    /\ Idle
    /\ TreeConstructed
    /\ ResultsConstructed /\ scan_points = <<MaxPoints>> /\ variant = "full"
    /\ RunFrameConstructed

ShapesNext ==
    \/ \E kind \in ShapeKinds, parent \in {NoNode} \cup DOMAIN node :
          create_and_add_node(kind, parent, NoIndex)
          /\ UNCHANGED <<utilVars, appVars, resVars, runVars>>
    \/ \E force_update \in BOOLEAN :
          call_get_all_result_shapes(force_update)
          /\ UNCHANGED <<utilVars, appVars, resVars, runVars>>
    \/ update_shapes_from_scan /\ UNCHANGED <<utilVars, appVars, runVars>>

SpecShapes == ShapesInit /\ [][ShapesNext]_vars

\* --------------------------- edits between the calls of the aggregator
\* The tree is built and the scan is changed while the composites are
\* allocated and results are stored: loaders and plugins which keep the
\* shape of their input, scans of one dimension, results for node 1 and
\* for node 2 at the first and at the last frame of the scan.
EditKinds == {"loader", "keep"}

EditScans == {<<a>> : a \in 1..MaxPoints}

EditDicts == { << Item(1, <<1, 2>>) >>, << Item(2, <<3, 4>>) >> }

EditInit ==
    /\ Idle
    /\ TreeConstructed
    /\ ResultsConstructed /\ scan_points = <<1>> /\ variant = "full"
    /\ RunFrameConstructed

EditNext ==
    \/ \E kind \in EditKinds, parent \in {NoNode} \cup DOMAIN node :
          create_and_add_node(kind, parent, NoIndex)
          /\ UNCHANGED <<utilVars, appVars, resVars, runVars>>
    \/ \E points \in EditScans :
          set_scan_points(points) /\ UNCHANGED <<utilVars, appVars, treeVars, runVars>>
    \/ update_shapes_from_scan /\ UNCHANGED <<utilVars, appVars, runVars>>
    \/ \E index \in {0, n_total(scan_points) - 1}, results_dict \in EditDicts :
          store_any(index, results_dict)
          /\ UNCHANGED <<utilVars, appVars, treeVars, runVars>>

SpecEdit == EditInit /\ [][EditNext]_vars

\* -------------------------------------- the frames of a scan, asked for
\* The scans of up to MaxScanDims dimensions; a caller asks for the
\* position of the frames in and just outside of the scan.
ScanGeometries ==
    UNION {[1..dim -> 1..MaxPoints] : dim \in 1..MaxScanDims}

ScanInit ==
    /\ Idle
    /\ TreeConstructed
    /\ composites = << >>
    /\ scan_points \in ScanGeometries
    /\ result_shapes = << >>
    /\ res_prev = NoCall
    /\ res_last = NoCall
    /\ n_stores = 0
    /\ pending = {}
    /\ variant = "full"
    /\ out_of_order = FALSE
    /\ scan_at_update = NoShape
    /\ frame = NoFrame
    /\ RunFrameConstructed

ScanNext ==
    \/ \E index \in (-1)..n_total(scan_points) :
          call_get_frame_position_in_scan(index)
          /\ UNCHANGED <<utilVars, appVars, treeVars, runVars>>
    \/ call_get_frame_from_position /\ UNCHANGED <<utilVars, appVars, treeVars, runVars>>

SpecScan == ScanInit /\ [][ScanNext]_vars

\* ------------------------------------------- nodes with ids of the caller
\* A tree is built of nodes for which the caller gives an id or none, below
\* the latest node or below a registered node.
InsertIds == {NoIndex} \cup 0..MaxNodes

InsertInit ==
    /\ Idle
    /\ TreeConstructed
    /\ ResultsConstructed /\ scan_points = <<1>> /\ variant = "full"
    /\ RunFrameConstructed

InsertNext ==
    \E parent \in {NoNode} \cup Range(nodes), node_id \in InsertIds :
       create_and_add_node("double", parent, node_id)
       /\ UNCHANGED <<utilVars, appVars, resVars, runVars>>

SpecInsert == InsertInit /\ [][InsertNext]_vars

\* -------------------------------------- edits and shape propagation
\* _WorkflowTree.import_from_file(filename): root, node_ids and nodes are
\* taken from the imported tree, here a root of the given kind, and the
\* changed flag is set.
tree_import_from_file(kind) ==
    /\ Len(node) < MaxNodes
    /\ node' = Append(node, [node_id |-> 0, parent |-> NoNode,
                             children |-> << >>, plugin |-> kind,
                             results |-> NoObject, result_kws |-> NoObject,
                             result_shape |-> NoShape,
                             pre_executed |-> FALSE, executed |-> FALSE])
    /\ root' = NewNode
    /\ node_ids' = <<0>>
    /\ nodes' = (0 :> NewNode)
    /\ tree_changed' = TRUE
    /\ shapes_last' = NoShapesCall
    /\ UNCHANGED <<heap, caller_arg, caller_kwargs, n_runs, exec_raised,
                   tree_results, insert_call, single_call>>

\* Inserts with and without ids, imports, and calls for the shapes.
DirtyInit ==
    /\ Idle
    /\ TreeConstructed
    /\ ResultsConstructed /\ scan_points = <<1>> /\ variant = "full"
    /\ RunFrameConstructed

DirtyNext ==
    \/ \E kind \in {"loader", "keep"}, parent \in {NoNode} \cup Range(nodes),
          node_id \in InsertIds :
          create_and_add_node(kind, parent, node_id)
          /\ UNCHANGED <<utilVars, appVars, resVars, runVars>>
    \/ \E kind \in {"loader", "keep"} :
          tree_import_from_file(kind)
          /\ UNCHANGED <<utilVars, appVars, resVars, runVars>>
    \/ \E force_update \in BOOLEAN :
          call_get_all_result_shapes(force_update)
          /\ UNCHANGED <<utilVars, appVars, resVars, runVars>>

SpecDirty == DirtyInit /\ [][DirtyNext]_vars

\* ------------------------------------------ a run of the worker pool
PoolInit ==
    /\ pc = "idle"
    /\ AppConstructed
    /\ ~slave_mode /\ ~live_processing /\ bad_frames = {}
    /\ images_per_file = 1
    /\ TreeConstructed \/ TreeWithRoot
    /\ ResultsConstructed /\ scan_points = <<1>> /\ variant = "full"
    /\ RunFrameConstructed /\ UtilConstructed

PoolNext ==
    \/ run_app /\ UNCHANGED utilVars
    \/ abort_execution /\ UNCHANGED <<utilVars, treeVars, resVars>>
    \/ abort_execution_returns /\ UNCHANGED <<utilVars, treeVars, resVars>>
    \/ abort_execution_timeout /\ UNCHANGED <<utilVars, treeVars, resVars>>
    \/ \E this \in BOOLEAN :
          WorkflowRunFrame_frame_activated(this)
          /\ UNCHANGED <<utilVars, treeVars, resVars>>
    \/ \E w \in Workers : worker_get_task(w) /\ UNCHANGED <<utilVars, treeVars, resVars>>
    \/ \E w \in Workers :
          worker_finish_task(w) /\ UNCHANGED <<utilVars, treeVars, resVars>>
    \/ \E w \in Workers :
          worker_abandon_task(w) /\ UNCHANGED <<utilVars, treeVars, resVars>>
    \/ \E w \in Workers : worker_exit(w) /\ UNCHANGED <<utilVars, treeVars, resVars>>
    \/ controller_store_results /\ UNCHANGED <<utilVars, treeVars, resVars>>
    \/ apprunner_end /\ UNCHANGED <<utilVars, treeVars, resVars>>
    \/ apprunner_finished /\ UNCHANGED <<utilVars, treeVars, resVars>>

SpecPool == PoolInit /\ [][PoolNext]_vars

\* --------------------------------------- the file list, called directly
FilesInit ==
    /\ Idle
    /\ TreeConstructed
    /\ ResultsConstructed /\ scan_points = <<1>> /\ variant = "full"
    /\ RunFrameConstructed

FilesNext ==
    \/ \E first_file \in DirNames, last_file \in {NoIndex} \cup DirNames,
          live \in BOOLEAN, file_stepping \in 1..MaxStep :
          update(first_file, last_file, live, file_stepping)
          /\ UNCHANGED <<appVars, treeVars, resVars, runVars>>
    \/ \E index \in (-1)..MaxDir :
          call_get_filename(index)
          /\ UNCHANGED <<appVars, treeVars, resVars, runVars>>

SpecFiles == FilesInit /\ [][FilesNext]_vars

\* ------------------------------ the controller's App and a worker's App
WorkerInit ==
    /\ pc = "idle"
    /\ AppConstructed
    /\ ~slave_mode /\ ~live_processing /\ bad_frames = {}
    /\ images_per_file = 1 /\ n_files = 1
    /\ FilelistManagerConstructed
    /\ ControllerAppConstructed
    /\ ScanIoFioLoaded
    /\ grid = [composite_nx |-> 1, composite_ny |-> 1, composite_dir |-> "x",
               n_total |-> 1, prepared |-> "not run", array |-> NoShape,
               n_edits |-> 0, last |-> NoGridCall]
    /\ tiles = NoTiles
    /\ TreeConstructed
    /\ ResultsConstructed /\ scan_points = <<1>> /\ variant = "full"
    /\ RunFrameConstructed

WorkerNext ==
    \/ ctrl_pre_run /\ UNCHANGED <<appVars, treeVars, resVars, runVars>>
    \/ \E index \in 0..(MaxTiles - 1) :
          ctrl_store_results(index)
          /\ UNCHANGED <<appVars, treeVars, resVars, runVars>>
    \/ ctrl_post_run /\ UNCHANGED <<appVars, treeVars, resVars, runVars>>
    \/ \E given \in BOOLEAN :
          ctrl_apply_thresholds(given)
          /\ UNCHANGED <<appVars, treeVars, resVars, runVars>>
    \/ App_copy /\ UNCHANGED <<appVars, treeVars, resVars, runVars>>
    \/ set_slave_mode /\ UNCHANGED <<appVars, treeVars, resVars, runVars>>
    \/ \E given \in BOOLEAN :
          worker_apply_thresholds(given)
          /\ UNCHANGED <<appVars, treeVars, resVars, runVars>>
    \/ worker_pre_run /\ UNCHANGED <<appVars, treeVars, resVars, runVars>>
    \/ \E op \in {"pre_cycle", "carryon", "func"} :
          worker_cycle(op) /\ UNCHANGED <<appVars, treeVars, resVars, runVars>>
    \/ \E index \in 0..(MaxTiles - 1) :
          worker_store_results(index)
          /\ UNCHANGED <<appVars, treeVars, resVars, runVars>>
    \/ worker_post_run /\ UNCHANGED <<appVars, treeVars, resVars, runVars>>

SpecWorker == WorkerInit /\ [][WorkerNext]_vars

\* --------------------------------------------- the FIO importer, called
FioInit ==
    /\ Idle
    /\ TreeConstructed
    /\ ResultsConstructed /\ scan_points = <<1>> /\ variant = "full"
    /\ RunFrameConstructed

FioNext ==
    \/ assign_imported_params
       /\ UNCHANGED <<appVars, treeVars, resVars, runVars>>
    \/ import_from_file(<< >>)
       /\ UNCHANGED <<appVars, treeVars, resVars, runVars>>
    \/ \E f \in SingleFiles :
          import_from_file(<<f>>)
          /\ UNCHANGED <<appVars, treeVars, resVars, runVars>>
    \/ \E f \in FirstFiles, g \in LaterFiles :
          import_from_file(<<f, g>>)
          /\ UNCHANGED <<appVars, treeVars, resVars, runVars>>

SpecFio == FioInit /\ [][FioNext]_vars

\* ------------------------------- a run started from the older frame
\* An ExecuteWorkflowFrame with a tree that has a root: its _run_app and
\* _apprunner_finished are those of the WorkflowRunFrame, its abort is not.
FrameInit ==
    /\ pc = "idle"
    /\ AppConstructed
    /\ ~slave_mode /\ ~live_processing /\ bad_frames = {}
    /\ images_per_file = 1
    /\ TreeConstructed \/ TreeWithRoot
    /\ ResultsConstructed /\ scan_points = <<1>> /\ variant = "full"
    /\ RunFrameConstructed /\ UtilConstructed

FrameNext ==
    \/ \E run_type \in {"Process in GUI", "Command line"} :
          ExecuteWorkflowFrame_execute(run_type) /\ UNCHANGED utilVars
    \/ message_box_closed /\ UNCHANGED <<utilVars, treeVars, resVars>>
    \/ \E this \in BOOLEAN : frame_activated(this) /\ UNCHANGED utilVars
    \/ \E points \in EditScans :
          box = << >> /\ set_scan_points(points)
          /\ UNCHANGED <<utilVars, appVars, treeVars, runVars>>
    \/ ExecuteWorkflowFrame_abort_execution
       /\ UNCHANGED <<utilVars, treeVars, resVars>>
    \/ \E w \in Workers : worker_get_task(w) /\ UNCHANGED <<utilVars, treeVars, resVars>>
    \/ \E w \in Workers :
          worker_finish_task(w) /\ UNCHANGED <<utilVars, treeVars, resVars>>
    \/ \E w \in Workers :
          worker_abandon_task(w) /\ UNCHANGED <<utilVars, treeVars, resVars>>
    \/ \E w \in Workers : worker_exit(w) /\ UNCHANGED <<utilVars, treeVars, resVars>>
    \/ controller_store_results /\ UNCHANGED <<utilVars, treeVars, resVars>>
    \/ apprunner_end /\ UNCHANGED <<utilVars, treeVars, resVars>>
    \/ \E i \in 0..MaxEarlier :
          ExecuteWorkflowFrame_apprunner_finished(i)
          /\ UNCHANGED <<utilVars, treeVars, resVars>>
    \/ \E i \in 1..MaxEarlier, w \in Workers :
          earlier_worker_get_task(i, w) /\ UNCHANGED <<utilVars, treeVars, resVars>>
    \/ \E i \in 1..MaxEarlier, w \in Workers :
          earlier_worker_finish_task(i, w)
          /\ UNCHANGED <<utilVars, treeVars, resVars>>
    \/ \E i \in 1..MaxEarlier, w \in Workers :
          earlier_worker_exit(i, w) /\ UNCHANGED <<utilVars, treeVars, resVars>>
    \/ \E i \in 1..MaxEarlier :
          earlier_store_results(i) /\ UNCHANGED <<utilVars, treeVars, resVars>>
    \/ \E i \in 1..MaxEarlier :
          earlier_apprunner_end(i) /\ UNCHANGED <<utilVars, treeVars, resVars>>

SpecFrame == FrameInit /\ [][FrameNext]_vars

\* ------------------------------------------- the tiles of a composite
GridInit ==
    /\ pc = "idle"
    /\ AppConstructed
    /\ ~slave_mode /\ ~live_processing /\ bad_frames = {}
    /\ images_per_file = 1 /\ n_files = 1
    /\ FilelistManagerConstructed
    /\ ControllerAppConstructed /\ ~ctrl_app.use_thresholds
    /\ ScanIoFioLoaded
    /\ GridConstructed
    /\ TreeConstructed
    /\ ResultsConstructed /\ scan_points = <<1>> /\ variant = "full"
    /\ RunFrameConstructed

GridNext ==
    \/ prepare_run /\ UNCHANGED <<appVars, treeVars, resVars, runVars>>
    \/ \E key \in {"composite_nx", "composite_ny"}, value \in GridSizes :
          grid_set_param_value(key, value)
          /\ UNCHANGED <<appVars, treeVars, resVars, runVars>>
    \/ \E value \in {"x", "y"} :
          grid_set_param_value("composite_dir", value)
          /\ UNCHANGED <<appVars, treeVars, resVars, runVars>>
    \/ \E index \in 0..(MaxGridImages - 1) :
          store_image(index)
          /\ UNCHANGED <<appVars, treeVars, resVars, runVars>>

SpecGrid == GridInit /\ [][GridNext]_vars

\* ------------------------------------------------------------ claims
IsPrefix(s, t) == Len(s) <= Len(t) /\ \A i \in 1..Len(s) : s[i] = t[i]

RECURSIVE Flatten(_)
Flatten(ss) == IF ss = << >> THEN << >> ELSE Head(ss) \o Flatten(Tail(ss))

TaskSet == 0..(NTotal - 1)

Called(name, t) == <<name, t>> \in Range(calls)

CountCalls(name, t) == Cardinality({i \in DOMAIN calls : calls[i] = <<name, t>>})

\* The calls of a complete serial run in which the gate let through the
\* tasks of the set ran.
LifeCycle(ran) ==
    << <<"pre_run", NoIndex>>, <<"get_tasks", NoIndex>> >>
    \o Flatten([i \in 1..NTotal |->
          << <<"pre_cycle", i - 1>>, <<"carryon", i - 1>> >>
          \o (IF (i - 1) \in ran
              THEN << <<"func", i - 1>>, <<"store_results", i - 1>> >>
              ELSE << >>)])
    \o << <<"post_run", NoIndex>> >>

\* C1: the calls of a serial run are made in the order pre_run, get_tasks,
\* then per task in task order pre_cycle, carryon, func, store_results,
\* then post_run; with the default carryon (no live processing) the gate
\* lets every task through, and a run that returns has made every call of
\* that sequence exactly once, post_run last.
C1_LifeCycleOrder ==
    /\ \E ran \in SUBSET TaskSet : IsPrefix(calls, LifeCycle(ran))
    /\ ~live_processing => IsPrefix(calls, LifeCycle(TaskSet))
    /\ (pc = "done" /\ ~live_processing) =>
          /\ calls = LifeCycle(TaskSet)
          /\ \A t \in TaskSet : /\ CountCalls("func", t) = 1
                                /\ CountCalls("store_results", t) = 1
          /\ CountCalls("post_run", NoIndex) = 1

C1_Witness ==
    /\ pc = "done"
    /\ ~live_processing
    /\ NTotal >= 3
    /\ calls = LifeCycle(TaskSet)

\* C5: at the end of a run every task of get_tasks has been passed to
\* store_results or has been reported as abandoned; none is dropped.
C5_NoTaskSilentlyDropped ==
    pc = "done" =>
        \A t \in TaskSet : Called("store_results", t) \/ Called("abandoned", t)

\* C6: a file wait with timeout 0 whose file never has the reference size
\* does not block: once the timeout has passed it is no longer waiting.
C6_ZeroTimeoutDoesNotBlock ==
    (caller = "direct" /\ timeout = 0 /\ pc \in {"wait", "sleep"}) => elapsed <= timeout

\* C8: a func that raises for one task does not abort the run: when the
\* run has ended, every other task has been processed and stored and
\* post_run has been called.
C8_FuncFailureIsTaskLevel ==
    (pc \in {"done", "raised"} /\ ~live_processing) =>
        /\ \A t \in TaskSet \ bad_frames : Called("store_results", t)
        /\ Called("post_run", NoIndex)

\* The three nodes root -> child -> grandchild, each plugin doubling.
IsDoublingChain3 ==
    /\ Len(node) = 3
    /\ Len(node_ids) = 3
    /\ root = 1
    /\ node[1].children = <<2>>
    /\ node[2].children = <<3>>
    /\ node[3].children = << >>
    /\ \A h \in 1..3 : node[h].plugin = "double"

\* The chain is executed in this step.
Executes == n_runs' = n_runs + 1

\* C9 as stated: the three-node doubling chain executed with 5 returns the
\* leaf result 20.
C9_Chain3Yields20 ==
    [][(Executes /\ IsDoublingChain3 /\ heap'[caller_arg'].data = 5) =>
          /\ DOMAIN tree_results' = {node[3].node_id}
          /\ heap'[tree_results'[node[3].node_id]].data = 20]_vars

\* C9 amended: the three-node doubling chain returns, for its only leaf,
\* the input doubled three times: 40 for the input 5.
C9_Chain3DoublesThrice ==
    [][(Executes /\ IsDoublingChain3) =>
          /\ DOMAIN tree_results' = {node[3].node_id}
          /\ heap'[tree_results'[node[3].node_id]].data
                = 8 * heap'[caller_arg'].data]_vars

C9_Witness ==
    /\ n_runs = 1
    /\ IsDoublingChain3
    /\ heap[caller_arg].data = 5
    /\ DOMAIN tree_results = {2}
    /\ heap[tree_results[2]].data = 40

\* What is seen of a value and a keyword dictionary: their own content
\* and the content of the objects nested in them.
Visible(h, a, k) ==
    [data |-> h[a].data, meta |-> h[h[a].meta].data,
     kwdata |-> h[k].data, kwmeta |-> h[h[k].meta].data]

\* What a plugin makes of what it is given, taken alone.
PureStep(kind, v) ==
    CASE kind = "double"  -> [v EXCEPT !.data = 2 * @]
      [] kind = "inplace" -> [v EXCEPT !.data = 2 * @, !.kwdata = @ + 1]
      [] kind = "deep"    -> [v EXCEPT !.meta = @ + 1, !.kwmeta = @ + 1]
      [] OTHER -> v

\* The result of the branch from the root to the node object h alone.
RECURSIVE BranchResult(_, _, _)
BranchResult(nd, h, v) ==
    IF nd[h].parent = NoNode
    THEN PureStep(nd[h].plugin, v)
    ELSE PureStep(nd[h].plugin, BranchResult(nd, nd[h].parent, v))

HasFanOut == \E h \in DOMAIN node : Len(node[h].children) >= 2

\* C10: when a node has two or more children, what a branch makes in
\* place of its input and keywords is seen neither in the result of a leaf
\* of another branch nor in the value and keywords the caller passed: each
\* leaf holds the result of its own branch, the caller's objects are as
\* they were passed.
C10_SiblingsIsolated ==
    [][(Executes /\ HasFanOut /\ ~exec_raised') =>
          LET passed == [data |-> heap'[caller_arg'].data, meta |-> 0,
                         kwdata |-> 0, kwmeta |-> 0]
          IN  /\ Visible(heap', caller_arg', caller_kwargs') = passed
              /\ \A id \in DOMAIN tree_results' :
                    Visible(heap', node'[nodes[id]].results,
                            node'[nodes[id]].result_kws)
                      = BranchResult(node, nodes[id], passed)]_vars

\* ---- the aggregator
\* A store_results call is made in this step.
StoreStep == res_last'.op = "store" /\ n_stores' = n_stores + 1

\* The element of the value val that numpy writes to the cell idx.
Element(val, idx) == IF Len(val) = 1 THEN val[1] ELSE val[idx[Len(idx)] + 1]

\* The cells of an array at the position pos of the scan.
CellsAt(buf, pos) == {idx \in DOMAIN buf.data : SubSeq(idx, 1, Len(pos)) = pos}

Keys(results_dict) == {results_dict[i].key : i \in DOMAIN results_dict}

\* The composites of a run whose results are stored in the order of the
\* frames, from the frame t on.
RECURSIVE InOrder(_, _)
InOrder(comp, t) ==
    IF t >= n_total(scan_points) THEN comp
    ELSE InOrder(store_results(comp, scan_points, t,
                               task_results(variant, t)).composites, t + 1)

\* C2: when the results of all frames of a run have been stored, in
\* whatever order they arrived, the composites are those that storing them
\* in the order of the frames gives.
C2_ArrivalOrderIrrelevant ==
    pending = {} =>
        composites = InOrder([key \in DOMAIN composites |->
                                 zeros(composites[key].shape)], 0)

C2_Witness ==
    /\ pending = {}
    /\ out_of_order
    /\ scan_points = <<2, 2>>
    /\ variant = "full"
    /\ res_prev.index = 0
    /\ res_last.index = 2
    /\ DOMAIN composites = {1, 2}
    /\ composites[1].data[<<1, 1, 0>>] = 41
    /\ composites[2].shape = <<2, 2>> \o Result2Shape
    /\ composites[2].data[<<0, 1, 0, 0, 0>>] = 20
    /\ composites[2].data[<<0, 1, 0, 0, 1>>] = 20

\* C3: a store_results call that follows one for the same frame leaves the
\* composites as they are if its results are the same; otherwise the cells
\* of the frame hold, for the leaves of its results, what this call alone
\* writes to composites of zeros: nothing of the earlier call is left.
C3_IdempotentLastWriteWins ==
    [][(StoreStep /\ res_last.op = "store"
        /\ res_last'.index = res_last.index) =>
          LET call == res_last'
              p == get_frame_position_in_scan(scan_points, call.index)
              alone == store_results(
                           [key \in DOMAIN composites |->
                              zeros(composites[key].shape)],
                           scan_points, call.index, call.results).composites
          IN  /\ call.results = res_last.results => composites' = composites
              /\ call.raised = "None" =>
                   \A key \in Keys(call.results) :
                     \A idx \in CellsAt(composites'[key], p.pos) :
                        composites'[key].data[idx] = alone[key].data[idx]]_vars

C3_Witness ==
    /\ n_stores = 2
    /\ scan_points = <<2, 2>>
    /\ res_prev = [op |-> "store", index |-> 3,
                   results |-> << Item(1, <<1, 2>>) >>, raised |-> "None"]
    /\ res_last = [op |-> "store", index |-> 3,
                   results |-> << Item(2, <<4>>), Item(1, <<5, 6>>) >>,
                   raised |-> "None"]
    /\ composites[1].data[<<1, 1, 0>>] = 5
    /\ composites[1].data[<<1, 1, 1>>] = 6
    /\ composites[2].data[<<1, 1, 0, 0, 0>>] = 4
    /\ composites[2].data[<<1, 1, 0, 0, 1>>] = 4

\* What a store_results call changes, with Conv the conversion of a value
\* on its way into the composite and back: the composites keep their
\* shape scan points + result shape; a cell that changes is a cell of a
\* leaf of the results at the position of the frame; after a call that
\* returned, these cells hold the converted values; two frames of the scan
\* have different positions.
FrameEffect(Conv(_)) ==
    LET call == res_last'
        p == get_frame_position_in_scan(scan_points, call.index)
        N == n_total(scan_points)
    IN  /\ DOMAIN composites' = DOMAIN composites
        /\ \A key \in DOMAIN composites :
             /\ composites'[key].shape = scan_points \o result_shapes[key]
             /\ \A idx \in DOMAIN composites[key].data :
                  composites'[key].data[idx] # composites[key].data[idx] =>
                     /\ p.raised = "None"
                     /\ key \in Keys(call.results)
                     /\ idx \in CellsAt(composites[key], p.pos)
        /\ call.raised = "None" =>
             \A i \in DOMAIN call.results :
               LET buf == composites'[call.results[i].key]
               IN  \A idx \in CellsAt(buf, p.pos) :
                     buf.data[idx] = Conv(Element(call.results[i].val, idx))
        /\ Cardinality({get_frame_position_in_scan(scan_points, i).pos :
                           i \in 0..(N - 1)}) = N

Same(v) == v

\* C4 as stated: store_results changes only the cells of the leaves of the
\* results at the position of the frame, these cells then hold the stored
\* values, and different frames have different cells.
C4_StoreWritesOnlyItsCells == [][StoreStep => FrameEffect(Same)]_vars

\* C4 amended: store_results changes only the cells of the leaves of the
\* results at the position of the frame, these cells then hold the stored
\* values converted to float32, the type of the composites, and different
\* frames have different cells.
C4_StoreWritesOnlyItsCellsAsFloat32 ==
    [][StoreStep => FrameEffect(float32)]_vars

C4_Witness ==
    /\ n_stores = 2
    /\ scan_points = <<2, 2>>
    /\ res_prev = [op |-> "store", index |-> 1,
                   results |-> << Item(1, <<Float32Exact + 1>>) >>,
                   raised |-> "None"]
    /\ res_last = [op |-> "store", index |-> 2,
                   results |-> << Item(2, <<4>>), Item(1, <<5, 6>>) >>,
                   raised |-> "None"]
    /\ composites[1].shape = <<2, 2, 2>>
    /\ composites[1].data[<<1, 0, 0>>] = 5
    /\ composites[1].data[<<1, 0, 1>>] = 6
    /\ composites[2].shape = <<2, 2>> \o Result2Shape
    /\ composites[2].data[<<1, 0, 0, 0, 0>>] = 4
    /\ composites[2].data[<<1, 0, 0, 0, 1>>] = 4
    /\ composites[1].data[<<0, 1, 0>>] = Float32Exact
    /\ composites[1].data[<<0, 0, 0>>] = 0
    /\ composites[2].data[<<0, 1, 0, 0, 0>>] = 0

\* ---- the worker pool
\* C7: once the frame has asked the runner of a run to stop, no worker
\* takes a task from the queue, multiprocessing_post_run is not called for
\* this run, and what was stored in the composite stays as it is.
C7_StopEndsTheRun ==
    [][(abort_requested /\ runner # "none") =>
          /\ task_queue' = task_queue
          /\ \A w \in Workers :
               workers'[w].state = "busy" => workers'[w] = workers[w]
          /\ post_run_called' => post_run_called
          /\ DOMAIN composite' = DOMAIN composite
          /\ \A t \in DOMAIN composite :
               composite[t] # 0 => composite'[t] = composite[t]]_vars

C7_Witness ==
    /\ abort_requested
    /\ runner = "finished"
    /\ ~post_run_called
    /\ Len(task_queue) > 0
    /\ \E t \in DOMAIN composite : composite[t] = import_data(t)

\* ---- a failing task
\* C11: when a plugin raises during a task, the exception reaches the
\* caller and no node holds a result of this task afterwards: the results
\* of every node are what they were before the call, also those of leaves
\* of sibling branches which completed before the failure.
C11_NoPartialResultsRetained ==
    [][(Executes /\ exec_raised') =>
          /\ tree_results' = << >>
          /\ \A h \in DOMAIN node :
               /\ node'[h].results = node[h].results
               /\ node'[h].result_kws = node[h].result_kws]_vars

\* ---- the shapes of the results
\* A step in which get_all_result_shapes is called without force_update,
\* the tree being as it was at the call before.
SecondShapesCall ==
    /\ shapes_last # NoShapesCall
    /\ shapes_last' # NoShapesCall
    /\ ~shapes_last'.force

Leaves(nd) == {h \in DOMAIN nd : h \in Range(nodes) /\ is_leaf(nd, h)}

\* C12: a second get_all_result_shapes call, with no change of the tree
\* since the first, leaves the result shape of every leaf as it is and the
\* changed flag clear, and does not walk the tree again.
C12_SecondCallDoesNotWalk ==
    [][SecondShapesCall =>
          /\ \A h \in Leaves(node) :
               node'[h].result_shape = node[h].result_shape
          /\ ~tree_changed /\ ~tree_changed'
          /\ ~shapes_last'.walked]_vars

Unresolved(shape) == shape = NoShape \/ Wildcard \in Range(shape)

\* C13: when a leaf has an unresolved result shape (a dimension -1 or no
\* shape at all) after the propagation, get_all_result_shapes raises a
\* configuration error which names such a leaf, and
\* update_shapes_from_scan leaves every composite as it is.
C13_UnresolvedLeafIsConfigError ==
    [][(/\ shapes_last' # NoShapesCall
        /\ root # NoNode
        /\ \E h \in Leaves(node') : Unresolved(node'[h].result_shape)) =>
          /\ shapes_last'.raised = "AppConfigError"
          /\ \E h \in Leaves(node') :
               /\ Unresolved(node'[h].result_shape)
               /\ shapes_last'.named = node'[h].node_id
          /\ composites' = composites]_vars

\* ---- the composites and the tree
\* The last call of get_all_result_shapes was made by an
\* update_shapes_from_scan that returned, and the tree was not edited
\* since.
Updated ==
    /\ shapes_last.by = "update_shapes_from_scan"
    /\ shapes_last.raised = "None"

LeafIds == {node[h].node_id : h \in Leaves(node)}

\* C14: after an update_shapes_from_scan call the aggregator holds a
\* composite for exactly the leaves of the tree.
C14_CompositesAreTheLeaves ==
    Updated => DOMAIN composites = LeafIds

\* A step which is an update_shapes_from_scan call.
UpdateStep ==
    /\ n_stores' = n_stores
    /\ res_last'.op = "update"
    /\ res_prev' = res_last
    /\ shapes_last'.by = "update_shapes_from_scan"

\* C15: an update_shapes_from_scan call with the scan and the tree as
\* they were at the call before leaves the composites and what is stored
\* in them as they are.
C15_UnchangedSourceKeepsResults ==
    [][(UpdateStep /\ Updated /\ scan_points' = scan_points) =>
          composites' = composites]_vars

\* C16: a store_results call whose results have a key which is not a leaf
\* of the current shape map (the dictionary the last
\* update_shapes_from_scan got from the tree; none before the first) raises.
C16_UnknownLeafIsRejected ==
    [][(StoreStep /\ ~(Keys(res_last'.results) \subseteq DOMAIN result_shapes))
          => res_last'.raised # "None"]_vars

\* The composites were allocated, and the tree was edited or the scan was
\* changed since the last update_shapes_from_scan that returned.
Stale ==
    /\ scan_at_update # NoShape
    /\ ~Updated \/ scan_points # scan_at_update

\* C17: a store_results call after a change of the tree or of the scan,
\* with no update_shapes_from_scan in between, raises and writes nothing.
C17_StaleStoreIsRejected ==
    [][(StoreStep /\ Stale) =>
          /\ res_last'.raised # "None"
          /\ composites' = composites]_vars

\* ---- the frames of a scan
\* C18: for every scan and every frame index in it, every component of the
\* position of the frame lies within its dimension of the scan, and the
\* frame at this position is the frame asked for.
C18_PositionRoundTrip ==
    (frame.index # NoIndex /\ frame.raised = "None") =>
        /\ Len(frame.pos) = Len(scan_points)
        /\ \A d \in 1..Len(scan_points) :
             frame.pos[d] >= 0 /\ frame.pos[d] < scan_points[d]
        /\ frame.back # NoIndex => frame.back = frame.index

C18_Witness ==
    /\ Len(scan_points) = MaxScanDims
    /\ \A d \in 1..Len(scan_points) : scan_points[d] = MaxPoints
    /\ frame.index = n_total(scan_points) - 2
    /\ frame.index > 0
    /\ frame.back = frame.index

\* ---- the nodes of the tree
\* A step in which create_and_add_node makes a node.
InsertStep == Len(node') = Len(node) + 1

\* C19: the node create_and_add_node makes becomes the root of an empty
\* tree; in a tree with nodes it becomes the last child of the latest
\* registered node if no parent is given, and of the given parent
\* otherwise; it is the child of no other node, and the children of the
\* other nodes stay as they are.
C19_InsertPlacesTheNode ==
    [][InsertStep =>
          LET new == Len(node')
              parent == IF insert_call'.parent = NoNode
                        THEN nodes[node_ids[Len(node_ids)]]
                        ELSE insert_call'.parent
          IN  IF Len(node_ids) = 0
              THEN /\ root' = new
                   /\ node'[new].parent = NoNode
                   /\ node'[new].children = << >>
              ELSE /\ root' = root
                   /\ node'[new].parent = parent
                   /\ node'[new].children = << >>
                   /\ node'[parent].children =
                        Append(node[parent].children, new)
                   /\ \A h \in DOMAIN node \ {parent} :
                        node'[h].children = node[h].children]_vars

C19_Witness ==
    /\ Len(node) = 3
    /\ insert_call.parent = NoNode
    /\ root = 1
    /\ node[1].children = <<2>>
    /\ node[2].children = <<3>>
    /\ node[3].parent = 2

\* C20: create_and_add_node returns the id of the node it made, for the
\* root as for every later node, and the node is registered under this id.
C20_InsertReturnsTheId ==
    [][InsertStep =>
          LET new == Len(node')
          IN  /\ insert_call'.returned # NoIndex
              /\ insert_call'.returned = node'[new].node_id
              /\ insert_call'.returned \in DOMAIN nodes'
              /\ nodes'[insert_call'.returned] = new]_vars

\* C21: create_and_add_node with a node_id that is in use raises, with or
\* without a parent; the registry is as it was: the node that has the id
\* keeps it and no other node is registered.
C21_DuplicateIdRaises ==
    [][(InsertStep /\ insert_call'.node_id \in Range(node_ids)) =>
          /\ insert_call'.raised
          /\ node_ids' = node_ids
          /\ nodes' = nodes
          /\ \A h \in Range(nodes) : node'[h].node_id = node[h].node_id]_vars

C21_Witness ==
    /\ insert_call.raised
    /\ insert_call.parent # NoNode
    /\ insert_call.node_id = 0
    /\ Len(node_ids) = 2
    /\ Len(node) = 3
    /\ nodes[0] = root

\* C22: when execute_process_and_get_results calls the execute of a
\* plugin for the first time, pre_execute of this plugin has been called.
C22_PreExecuteBeforeExecute ==
    [][Executes =>
          \A h \in DOMAIN node :
             (node'[h].executed /\ ~node[h].executed) =>
                 node'[h].pre_executed]_vars

\* C23: get_filename(index) raises AppConfigError when no file list was
\* built (n_files is None) and when index is not in [0, n_files); for an
\* index in [0, n_files) it returns the entry of the file list at index.
C23_GetFilename ==
    [][filename_call' # filename_call =>
          LET index == filename_call'.index
              in_list == /\ fm_config.n_files # NoIndex
                         /\ 0 <= index /\ index < fm_config.n_files
          IN  /\ ~in_list => filename_call'.raised = "AppConfigError"
              /\ in_list => /\ filename_call'.raised = "None"
                            /\ filename_call'.returned =
                                  fm_config.file_list[index + 1]]_vars

\* A file list of every second file was built and its second entry asked
\* for.
C23_Witness ==
    /\ fm_config.n_files = 2
    /\ fm_config.file_list = << Path(1), Path(3) >>
    /\ filename_call = [index |-> 1, raised |-> "None", returned |-> Path(3)]

\* The array of the controller's composite, if it has one.
ControllerImage(app, arr) ==
    IF app.image = NoObject THEN NoArray ELSE arr[app.image]

C25_FailedImportClearsParams ==
    [][(/\ fio_call' # fio_call /\ fio_call'.raised # "None"
        /\ (Len(fio_call'.filenames) = 1 => fio_call'.filenames[1].exists)) =>
          /\ fio_call'.raised = "UserConfigError"
          /\ imported_params' = {}]_vars

\* The registered node objects, and how often c stands in the children of
\* the registered nodes.
Registered == Range(nodes)

Occurrences(c) ==
    Cardinality({<<h, i>> \in Registered \X (1..MaxNodes) :
                    i <= Len(node[h].children) /\ node[h].children[i] = c})

\* Whether a is reached from h by k or fewer steps to the parent.
RECURSIVE HasAncestor(_, _, _)
HasAncestor(h, a, k) ==
    /\ k > 0
    /\ node[h].parent # NoNode
    /\ (node[h].parent = a \/ HasAncestor(node[h].parent, a, k - 1))

\* C27: after any inserts, also raising ones, a graph with nodes is a
\* tree: the root is the one registered node without parent, every other
\* registered node is once among the children of one node, every child of
\* a registered node is registered, and no node is its own ancestor.
C27_WellFormedTree ==
    Len(node_ids) > 0 =>
       /\ {h \in Registered : node[h].parent = NoNode} = {root}
       /\ \A h \in Registered \ {root} : Occurrences(h) = 1
       /\ \A h \in Registered :
             \A c \in Range(node[h].children) : c \in Registered
       /\ \A h \in Registered : ~HasAncestor(h, h, Len(node))

\* The links of the graph: the root, the registry and, per node object,
\* its parent and its children.
Topology(nd, r, reg) ==
    <<r, reg, [h \in DOMAIN nd |-> <<nd[h].parent, nd[h].children>>]>>

\* C26: every step that changes the topology of the graph (an insert, also
\* one that raises, or an import) leaves the changed flag set, and the flag
\* is cleared only by a step that propagated the shapes from the root.
C26_FlagFollowsEdits ==
    [][/\ Topology(node', root', nodes') # Topology(node, root, nodes)
             => tree_changed'
       /\ (tree_changed /\ ~tree_changed') => shapes_last'.walked]_vars

\* C28: a store_results call that raises leaves every composite as it was
\* before the call.
C28_RaisingStoreWritesNothing ==
    [][(StoreStep /\ res_last'.raised # "None") =>
          composites' = composites]_vars

\* C29: after prepare_run succeeded every image index of the tasks is
\* written to a tile inside the composite_nx x composite_ny grid, and two
\* indices are written to two tiles, for both directions: a store of a
\* task index puts the image on the tile counted for it, which is a tile
\* of the grid, and every other image of the composite stays on its tile.
C29_TilesInGridAndDistinct ==
    [][(/\ grid'.last.op = "store"
        /\ grid'.prepared = "None"
        /\ grid'.last.index < grid'.n_total)
       => /\ grid'.last.raised = "None"
          /\ grid'.last.tile \in
                (0..(grid'.composite_ny - 1)) \X (0..(grid'.composite_nx - 1))
          /\ grid'.last.tile \in DOMAIN tiles'
          /\ tiles'[grid'.last.tile] = grid'.last.index
          /\ \A c \in DOMAIN tiles :
                tiles[c] # grid'.last.index
                   => c \in DOMAIN tiles' /\ tiles'[c] = tiles[c]]_vars

\* Four images in a grid whose number of columns was completed, along y:
\* all of them are written, the last one in the second column.
C29_Witness ==
    /\ grid.composite_nx = 2 /\ grid.composite_ny = 2
    /\ grid.composite_dir = "y" /\ grid.n_total = 4
    /\ grid.prepared = "None" /\ grid.last.op = "store"
    /\ DOMAIN tiles = (0..1) \X (0..1)
    /\ tiles[<<1, 1>>] = 3
    /\ tiles[<<1, 0>>] = 1

\* C30: while the frame holds a runner, from _run_app until the finished
\* signal is handled, the execute button is disabled, so that no second
\* run can be started.
C30_ExecuteDisabledWhileRunner ==
    runner # "none" => ~but_exec

====
